---- MODULE Spec2Model ----
(***************************************************************************)
(* A model of the HS-code web application: the code formatter, the spec    *)
(* parser and scorer, the shortlist filter and the classification client   *)
(* of model_client.py, the candidate search of hs_search.py and the        *)
(* request handler and hierarchy lookup of app.py.                         *)
(*                                                                         *)
(* A Python str is a sequence of characters; a character is a one-letter   *)
(* string.  A character outside ASCII is named: a Vietnamese letter in     *)
(* VIQR notation ("a'" is a-acute, "a-" is a-grave, "u+" is u-horn, "dd" is d-stroke), any  *)
(* other character by its code point ("U+2264").  Each name stands for ONE *)
(* character.                                                              *)
(***************************************************************************)
EXTENDS Integers, Sequences, FiniteSets, TLC

VARIABLES
    pc,           \* where control is: "call"/"return" in a harness, else the stage of the request
    fn,           \* the pure function a harness specification applies
    arg,          \* its arguments
    ret,          \* its result (the empty tuple before the call)
    user_query,   \* ask_model_for_hs: query
    candidates,   \* ask_model_for_hs: candidate_rows.to_dict(orient="records")
    ask,          \* ask_model_for_hs: the locals that live across the remote call
    llm_log,      \* the completion requests issued to the hosted model, in order
    llm_outcome,  \* what the hosted model's call did: its reply, or the exception raised
    result,       \* the text ask_model_for_hs returned
    HS_DF,        \* app.HS_DF, the catalog loaded when the application starts
    request,      \* the web request: its method and its form field "description"
    hs_digits,    \* index: hs_digits (the empty tuple for None)
    http,         \* the GET of fetch_caselaw_hierarchy: pending, or its outcome
    caselaw_data, \* index: caselaw_data, a dict
    rendered,     \* what index handed to render_template
    stages        \* the calls and returns of the stages of a request, in order

PureVars == <<fn, arg, ret>>
AskVars == <<user_query, candidates, ask, llm_log, llm_outcome, result>>
WebLocals == <<HS_DF, request, hs_digits, http, caselaw_data, rendered>>
WebVars == <<WebLocals, stages>>
vars == <<pc, PureVars, AskVars, WebVars>>

NoLocals == [specs |-> <<>>, filtered |-> <<>>, top_candidates |-> <<>>]
NoOutcome == [kind |-> "none"]

\* the variables of the classification client, before any call
AskIdle ==
    /\ user_query = <<>> /\ candidates = <<>> /\ ask = NoLocals
    /\ llm_log = <<>> /\ llm_outcome = NoOutcome /\ result = <<>>

\* the variables of the web request, before any request
WebIdle ==
    /\ HS_DF = <<>> /\ request = NoOutcome /\ hs_digits = <<>> /\ http = NoOutcome
    /\ caselaw_data = <<>> /\ rendered = <<>> /\ stages = <<>>

\* the variables of the harnesses, when no harness runs
PureIdle == fn = "" /\ arg = <<>> /\ ret = <<>>

(***************************************************************************)
(* Characters and the pieces of Python's str and re the code uses.         *)
(***************************************************************************)
Digit == {"0", "1", "2", "3", "4", "5", "6", "7", "8", "9"}

IsDigit(c) == c \in Digit

\* re.sub(r"\D", "", str(hs))
StripNonDigits(s) == SelectSeq(s, IsDigit)

\* str.lower(), on the upper-case letters the model's texts use
LowerChar(c) ==
    CASE c = "A" -> "a" [] c = "B" -> "b" [] c = "C" -> "c" [] c = "D" -> "d"
      [] c = "F" -> "f" [] c = "G" -> "g" [] c = "H" -> "h" [] c = "M" -> "m"
      [] c = "J" -> "j" [] c = "N" -> "n" [] c = "O" -> "o"
      [] c = "S" -> "s" [] c = "V" -> "v" [] c = "DD" -> "dd"
      [] OTHER -> c

Lower(s) == [i \in 1..Len(s) |-> LowerChar(s[i])]

\* The characters of the model's texts that are not \w (letters, digits, "_").
NonWordChar ==
    {" ", "\n", "\t", ".", ",", ":", ";", "-", "|", "<", ">", "=", "!", "?", "\"", "/",
     "U+2264", "U+2265", "U+2013", "U+1F6AB", "U+26A0", "U+FE0F"}

IsWordChar(c) == c \notin NonWordChar

\* \s
IsSpace(c) == c \in {" ", "\n", "\t"}

\* s[i..] starts with pat
StartsWithAt(s, i, pat) ==
    /\ i + Len(pat) - 1 <= Len(s)
    /\ SubSeq(s, i, i + Len(pat) - 1) = pat

\* Python's "pat in s"
Contains(s, pat) == \E i \in 1..(Len(s) + 1) : StartsWithAt(s, i, pat)

\* str.strip()
RECURSIVE LStrip(_)
LStrip(s) == IF s # <<>> /\ IsSpace(Head(s)) THEN LStrip(Tail(s)) ELSE s

RECURSIVE RStrip(_)
RStrip(s) == IF s # <<>> /\ IsSpace(s[Len(s)]) THEN RStrip(SubSeq(s, 1, Len(s) - 1)) ELSE s

Strip(s) == RStrip(LStrip(s))

\* the index of the last character of the run of \s* that starts at i (i - 1 when empty)
RECURSIVE SpaceRunEnd(_, _)
SpaceRunEnd(s, i) ==
    IF i <= Len(s) /\ IsSpace(s[i]) THEN SpaceRunEnd(s, i + 1) ELSE i - 1

\* the index of the last character of the run of [0-9]* that starts at i (i - 1 when empty)
RECURSIVE DigitRunEnd(_, _)
DigitRunEnd(s, i) ==
    IF i <= Len(s) /\ IsDigit(s[i]) THEN DigitRunEnd(s, i + 1) ELSE i - 1

DigitValue(c) ==
    CASE c = "0" -> 0 [] c = "1" -> 1 [] c = "2" -> 2 [] c = "3" -> 3 [] c = "4" -> 4
      [] c = "5" -> 5 [] c = "6" -> 6 [] c = "7" -> 7 [] c = "8" -> 8 [] c = "9" -> 9

RECURSIVE IntValue(_)
IntValue(ds) ==
    IF ds = <<>> THEN 0 ELSE 10 * IntValue(SubSeq(ds, 1, Len(ds) - 1)) + DigitValue(ds[Len(ds)])

RECURSIVE Pow10(_)
Pow10(n) == IF n = 0 THEN 1 ELSE 10 * Pow10(n - 1)

(***************************************************************************)
(* A float is kept exactly, as its multiple of 10^-MaxFracDigits: the      *)
(* numbers of the model's texts have at most MaxFracDigits decimals.       *)
(***************************************************************************)
MaxFracDigits == 1

Scale == Pow10(MaxFracDigits)

\* float(text.replace(",", ".")) of a text matched by [0-9]+(?:[\.,][0-9]+)?
ParseFloat(t) ==
    LET e == DigitRunEnd(t, 1)
        frac == SubSeq(t, e + 2, Len(t))
    IN IntValue(SubSeq(t, 1, e)) * Scale + IntValue(frac) * Pow10(MaxFracDigits - Len(frac))

\* [0-9]+(?:[\.,][0-9]+)? at i: the index of its last character, 0 when it does not match
NumEnd(s, i) ==
    LET e == DigitRunEnd(s, i) IN
    IF e < i THEN 0
    ELSE IF e + 2 <= Len(s) /\ s[e + 1] \in {".", ","} /\ IsDigit(s[e + 2])
         THEN DigitRunEnd(s, e + 2)
         ELSE e

NoMatch == [ok |-> FALSE, end |-> 0, out |-> <<>>]

\* ([0-9]+(?:[\.,][0-9]+)?)\s*mm at i; out is group 1
MatchNumMm(s, i) ==
    LET e == NumEnd(s, i)
        w == SpaceRunEnd(s, e + 1)
    IN IF e > 0 /\ StartsWithAt(s, w + 1, <<"m", "m">>)
       THEN [ok |-> TRUE, end |-> w + 2, out |-> SubSeq(s, i, e)]
       ELSE NoMatch

\* (alt1|alt2|...)\s*([0-9]+(?:[\.,][0-9]+)?)\s*mm at i: the alternatives are tried
\* in order, the first that lets the rest match wins; out is group 2
RECURSIVE MatchQualNumMm(_, _, _)
MatchQualNumMm(alts, s, i) ==
    IF alts = <<>> THEN NoMatch
    ELSE LET m == IF StartsWithAt(s, i, Head(alts))
                  THEN MatchNumMm(s, SpaceRunEnd(s, i + Len(Head(alts))) + 1)
                  ELSE NoMatch
         IN IF m.ok THEN m ELSE MatchQualNumMm(Tail(alts), s, i)

(***************************************************************************)
(* model_client.format_hs_code (hs_search.format_hs_code is the same).     *)
(***************************************************************************)
format_hs_code_digits_only(hs) ==
    LET digits == StripNonDigits(hs) IN
    IF Len(digits) = 8
    THEN SubSeq(digits, 1, 4) \o <<".">> \o SubSeq(digits, 5, 6) \o <<".">> \o SubSeq(digits, 7, 8)
    ELSE IF Len(digits) = 6
    THEN SubSeq(digits, 1, 4) \o <<".">> \o SubSeq(digits, 5, 6)
    ELSE digits

format_hs_code(hs) ==
    LET digits == StripNonDigits(hs) IN
    IF Len(digits) = 8
    THEN SubSeq(digits, 1, 4) \o <<".">> \o SubSeq(digits, 5, 6) \o <<".">> \o SubSeq(digits, 7, 8)
    ELSE IF Len(digits) = 6
    THEN SubSeq(digits, 1, 4) \o <<".">> \o SubSeq(digits, 5, 6)
    ELSE hs

(***************************************************************************)
(* model_client.parse_thickness_from_text                                  *)
(***************************************************************************)
PyNone == "None"

\* the alternatives of the first two patterns, in the order of the source
LessWords == <<<<"d", "u+", "o+'", "i">>, <<"<">>, <<"i'", "t", " ", "h", "o+", "n">>, <<"k", "h", "o^", "n", "g", " ", "q", "u", "a'">>, <<"<", "=">>, <<"U+2264">>>>

MoreWords == <<<<"t", "r", "e^", "n">>, <<">">>, <<"l", "o+'", "n", " ", "h", "o+", "n">>, <<">", "=">>, <<"U+2265">>>>

\* every match of (words)\s*NUM\s*mm from i on, each as (comp, float(group 2))
RECURSIVE FindQualified(_, _, _, _)
FindQualified(alts, comp, s, i) ==
    IF i > Len(s) THEN <<>>
    ELSE LET m == MatchQualNumMm(alts, s, i) IN
         IF m.ok THEN <<<<comp, ParseFloat(m.out)>>>> \o FindQualified(alts, comp, s, m.end + 1)
         ELSE FindQualified(alts, comp, s, i + 1)

\* NUM\s*-\s*NUM\s*mm at i; out is <<group 1, group 2>>
MatchRange(s, i) ==
    LET e == NumEnd(s, i)
        d == SpaceRunEnd(s, e + 1) + 1
        m == IF e > 0 /\ d <= Len(s) /\ s[d] = "-"
             THEN MatchNumMm(s, SpaceRunEnd(s, d + 1) + 1)
             ELSE NoMatch
    IN IF m.ok THEN [ok |-> TRUE, end |-> m.end, out |-> <<SubSeq(s, i, e), m.out>>]
       ELSE NoMatch

\* a range is kept as two tuples; the upper one carries the label "<= " of the source
RECURSIVE FindRanges(_, _)
FindRanges(s, i) ==
    IF i > Len(s) THEN <<>>
    ELSE LET m == MatchRange(s, i) IN
         IF m.ok THEN << <<">=", ParseFloat(m.out[1])>>, <<"<= ", ParseFloat(m.out[2])>> >>
                      \o FindRanges(s, m.end + 1)
         ELSE FindRanges(s, i + 1)

\* every match of NUM\s*mm from i on; the pattern has one group, so m.group(2)
\* raises and the except branch takes float(group 1)
RECURSIVE FindBare(_, _)
FindBare(s, i) ==
    IF i > Len(s) THEN <<>>
    ELSE LET m == MatchNumMm(s, i) IN
         IF m.ok THEN <<<<"==", ParseFloat(m.out)>>>> \o FindBare(s, m.end + 1)
         ELSE FindBare(s, i + 1)

GapMax == 20

ThickWords == <<<<"d", "a-", "y">>, <<"dd", "o^.", " ", "d", "a-", "y">>>>

\* .{0,20}? from j: the least gap g, over characters that are not a newline, that
\* brings the scan to the start of a number; -1 when there is none
RECURSIVE LazyGap(_, _, _)
LazyGap(s, j, g) ==
    IF g > GapMax \/ j + g > Len(s) THEN -1
    ELSE IF NumEnd(s, j + g) > 0 THEN g
    ELSE IF s[j + g] = "\n" THEN -1
    ELSE LazyGap(s, j, g + 1)

\* (da-y|ddo^. da-y).{0,20}?(NUM)\s*(mm)? at i; out is group 2
RECURSIVE MatchThick(_, _, _)
MatchThick(alts, s, i) ==
    IF alts = <<>> THEN NoMatch
    ELSE LET j == i + Len(Head(alts))
             g == IF StartsWithAt(s, i, Head(alts)) THEN LazyGap(s, j, 0) ELSE -1
             e == NumEnd(s, j + g)
             w == SpaceRunEnd(s, e + 1)
         IN IF g >= 0
            THEN [ok |-> TRUE,
                  end |-> IF StartsWithAt(s, w + 1, <<"m", "m">>) THEN w + 2 ELSE w,
                  out |-> SubSeq(s, j + g, e)]
            ELSE MatchThick(Tail(alts), s, i)

RECURSIVE FindThick(_, _)
FindThick(s, i) ==
    IF i > Len(s) THEN <<>>
    ELSE LET m == MatchThick(ThickWords, s, i) IN
         IF m.ok THEN <<<<PyNone, ParseFloat(m.out)>>>> \o FindThick(s, m.end + 1)
         ELSE FindThick(s, i + 1)

parse_thickness_from_text(text) ==
    LET t == Lower(text) IN
    FindQualified(LessWords, "<=", t, 1) \o FindQualified(MoreWords, ">=", t, 1)
        \o FindRanges(t, 1) \o FindBare(t, 1) \o FindThick(t, 1)

(***************************************************************************)
(* model_client.parse_specs_from_query                                     *)
(***************************************************************************)
mats == <<<<"m", "d", "f">>, <<"v", "a'", "n", " ", "m", "d", "f">>, <<"v", "a'", "n">>, <<"g", "o^~">>, <<"f", "i", "b", "e", "r", "b", "o", "a", "r", "d">>, <<"h", "d", "f">>, <<"p", "l", "y", "w", "o", "o", "d">>, <<"v", "e", "n", "e", "e", "r">>>>

kws == <<<<"t", "r", "e?", " ", "e", "m">>, <<"t", "r", "e?", "-", "e", "m">>, <<"c", "h", "i", "l", "d">>, <<"b", "a", "b", "y">>, <<"g", "i", "a-", "y">>, <<"t", "r", "e?", " ", "e", "m">>>>

\* the entries of words that occur in q, in order, repeats kept
RECURSIVE WordsIn(_, _)
WordsIn(words, q) ==
    IF words = <<>> THEN <<>>
    ELSE (IF Contains(q, Head(words)) THEN <<Head(words)>> ELSE <<>>) \o WordsIn(Tail(words), q)

parse_specs_from_query(query) ==
    LET q == Lower(query) IN
    [material |-> WordsIn(mats, q),
     thickness |-> parse_thickness_from_text(q),
     keywords |-> WordsIn(kws, q)]

(***************************************************************************)
(* model_client.extract_numbers_from_text                                  *)
(***************************************************************************)
RECURSIVE FindMmNumbers(_, _)
FindMmNumbers(s, i) ==
    IF i > Len(s) THEN <<>>
    ELSE LET m == MatchNumMm(s, i) IN
         IF m.ok THEN <<ParseFloat(m.out)>> \o FindMmNumbers(s, m.end + 1)
         ELSE FindMmNumbers(s, i + 1)

extract_numbers_from_text(text) == FindMmNumbers(Lower(text), 1)

(***************************************************************************)
(* model_client.candidate_matches_specs                                    *)
(* A row is a record with the fields hs_code, ten_hang and description.    *)
(***************************************************************************)
\* " | ".join(fields)
RECURSIVE JoinBar(_)
JoinBar(fields) ==
    IF fields = <<>> THEN <<>>
    ELSE IF Len(fields) = 1 THEN fields[1]
    ELSE fields[1] \o <<" ", "|", " ">> \o JoinBar(Tail(fields))

RowDesc(row) ==
    JoinBar((IF row.ten_hang # <<>> THEN <<Lower(row.ten_hang)>> ELSE <<>>)
            \o (IF row.description # <<>> THEN <<Lower(row.description)>> ELSE <<>>))

\* how many entries of words are non-empty and occur in desc, repeats counted
RECURSIVE CountIn(_, _)
CountIn(words, desc) ==
    IF words = <<>> THEN 0
    ELSE (IF Head(words) # <<>> /\ Contains(desc, Head(words)) THEN 1 ELSE 0)
         + CountIn(Tail(words), desc)

Abs(x) == IF x < 0 THEN -x ELSE x

\* abs(cand_val - val) < 1e-6, on floats kept as multiples of 1/Scale
WithinEpsilon(a, b) == Abs(a - b) * 1000000 < Scale

\* InnerScan comparing strictly (< for <=, > for >=)
RECURSIVE InnerScan_strict(_, _, _)
InnerScan_strict(comp, val, nums) ==
    IF nums = <<>> THEN 0
    ELSE LET cand_val == Head(nums) IN
         IF (comp \in {"<", "<="} \/ (comp = PyNone /\ comp # ">=")) /\ cand_val < val THEN 20
         ELSE IF comp \in {">", ">="} /\ cand_val > val THEN 20
         ELSE IF comp = "==" /\ WithinEpsilon(cand_val, val) THEN 20
         ELSE InnerScan_strict(comp, val, Tail(nums))

\* one pass of "for cand_val in cand_nums", up to its break: 20 when a number
\* satisfies the constraint, else 0
RECURSIVE InnerScan(_, _, _)
InnerScan(comp, val, nums) ==
    IF nums = <<>> THEN 0
    ELSE LET cand_val == Head(nums) IN
         IF (comp \in {"<", "<="} \/ (comp = PyNone /\ comp # ">=")) /\ cand_val <= val THEN 20
         ELSE IF comp \in {">", ">="} /\ cand_val >= val THEN 20
         ELSE IF comp = "==" /\ WithinEpsilon(cand_val, val) THEN 20
         ELSE InnerScan(comp, val, Tail(nums))

\* str(n) of a natural number
RECURSIVE IntToStr(_)
IntToStr(n) ==
    LET d == <<"0", "1", "2", "3", "4", "5", "6", "7", "8", "9">>[(n % 10) + 1] IN
    IF n < 10 THEN <<d>> ELSE IntToStr(n \div 10) \o <<d>>

FallbackLess == <<<<"k", "h", "o^", "n", "g", " ", "q", "u", "a'">>, <<"d", "u+", "o+'", "i">>, <<"i'", "t", " ", "h", "o+", "n">>, <<"<", "=">>, <<"U+2264">>>>

FallbackMore == <<<<"t", "r", "e^", "n">>, <<"l", "o+'", "n", " ", "h", "o+", "n">>, <<">", "=">>, <<"U+2265">>>>

\* (alt1|alt2|...)\s*<digits>\s*mm at i
RECURSIVE MatchQualInt(_, _, _, _)
MatchQualInt(alts, digits, s, i) ==
    IF alts = <<>> THEN FALSE
    ELSE \/ /\ StartsWithAt(s, i, Head(alts))
            /\ LET j == SpaceRunEnd(s, i + Len(Head(alts))) + 1 IN
               /\ StartsWithAt(s, j, digits)
               /\ StartsWithAt(s, SpaceRunEnd(s, j + Len(digits)) + 1, <<"m", "m">>)
         \/ MatchQualInt(Tail(alts), digits, s, i)

\* re.search(r"(alts)\s*%s\s*mm" % int(val), desc)
SearchQualInt(alts, val, desc) ==
    \E i \in 1..Len(desc) : MatchQualInt(alts, IntToStr(val \div Scale), desc, i)

\* the textual fallback, tried when the candidate has no mm-number
TextualFallback(comp, val, nums, desc) ==
    IF nums # <<>> THEN 0
    ELSE (IF comp = "<=" /\ SearchQualInt(FallbackLess, val, desc) THEN 20 ELSE 0)
         + (IF comp = ">=" /\ SearchQualInt(FallbackMore, val, desc) THEN 20 ELSE 0)

\* what the thickness loop adds for the constraints th_specs
RECURSIVE ThicknessScore(_, _, _)
ThicknessScore(th_specs, nums, desc) ==
    IF th_specs = <<>> THEN 0
    ELSE LET comp == Head(th_specs)[1]
             val == Head(th_specs)[2]
         IN InnerScan(comp, val, nums) + TextualFallback(comp, val, nums, desc)
            + ThicknessScore(Tail(th_specs), nums, desc)

candidate_matches_specs(row, specs) ==
    LET desc == RowDesc(row)
        material == 10 * CountIn(specs.material, desc)
        keywords == 5 * CountIn(specs.keywords, desc)
        cand_nums == extract_numbers_from_text(desc)
        thickness == ThicknessScore(specs.thickness, cand_nums, desc)
    IN [matched |-> material > 0 \/ keywords > 0 \/ thickness > 0,
        score |-> material + keywords + (IF cand_nums # <<>> THEN 1 ELSE 0) + thickness]

(***************************************************************************)
(* model_client.filter_candidates_by_specs                                 *)
(***************************************************************************)
\* x put behind every entry of sorted whose score is not smaller
RECURSIVE InsertByScore(_, _)
InsertByScore(x, sorted) ==
    IF sorted = <<>> THEN <<x>>
    ELSE IF Head(sorted)[1] >= x[1] THEN <<Head(sorted)>> \o InsertByScore(x, Tail(sorted))
    ELSE <<x>> \o sorted

\* scored.sort(key=lambda x: x[0], reverse=True): stable, entries of equal score
\* keep their order
RECURSIVE SortByScoreDesc(_)
SortByScoreDesc(scored) ==
    IF scored = <<>> THEN <<>>
    ELSE InsertByScore(scored[Len(scored)], SortByScoreDesc(SubSeq(scored, 1, Len(scored) - 1)))

ScoreRows(rows, specs) ==
    [i \in 1..Len(rows) |-> <<candidate_matches_specs(rows[i], specs).score, rows[i]>>]

RowsOf(scored) == [i \in 1..Len(scored) |-> scored[i][2]]

\* s >= 0 for s > 0
IsPositive_or_zero(sr) == sr[1] >= 0

IsPositive(sr) == sr[1] > 0

FilterCap == 12

FirstN(s, n) == SubSeq(s, 1, IF Len(s) < n THEN Len(s) ELSE n)

\* filter_candidates_by_specs keeping the rows of score 0 too (s >= 0 for s > 0)
filter_candidates_keeping_zero_scores(cands, specs) ==
    LET scored == SortByScoreDesc(ScoreRows(cands, specs))
        filtered == RowsOf(scored)
    IN IF scored # <<>> /\ scored[1][1] = 0 THEN cands
       ELSE IF filtered = <<>> THEN cands
       ELSE FirstN(filtered, FilterCap)

filter_candidates_by_specs(cands, specs) ==
    LET scored == SortByScoreDesc(ScoreRows(cands, specs))
        filtered == RowsOf(SelectSeq(scored, IsPositive))
    IN IF scored # <<>> /\ scored[1][1] = 0 THEN cands
       ELSE IF filtered = <<>> THEN cands
       ELSE FirstN(filtered, FilterCap)

(***************************************************************************)
(* model_client._extract_hs_from_output                                    *)
(***************************************************************************)
\* \b between s[i - 1] and s[i]
WordBoundary(s, i) ==
    (i > 1 /\ i - 1 <= Len(s) /\ IsWordChar(s[i - 1])) # (i <= Len(s) /\ IsWordChar(s[i]))

AllDigits(s, i, j) == j <= Len(s) /\ \A k \in i..j : IsDigit(s[k])

\* \.\d{2} at i
DotTwo(s, i) == i + 2 <= Len(s) /\ s[i] = "." /\ AllDigits(s, i + 1, i + 2)

\* \b\d{4}(?:\.\d{2}(?:\.\d{2})?)?\b at i: the index of the last character of the
\* match, the longest alternative first; 0 when there is no match
MatchHs(s, i) ==
    IF ~(WordBoundary(s, i) /\ AllDigits(s, i, i + 3)) THEN 0
    ELSE IF DotTwo(s, i + 4) /\ DotTwo(s, i + 7) /\ WordBoundary(s, i + 10) THEN i + 9
    ELSE IF DotTwo(s, i + 4) /\ WordBoundary(s, i + 7) THEN i + 6
    ELSE IF WordBoundary(s, i + 4) THEN i + 3
    ELSE 0

\* re.search of that pattern: the leftmost match, the empty text for None
RECURSIVE SearchHs(_, _)
SearchHs(s, i) ==
    IF i > Len(s) THEN <<>>
    ELSE IF MatchHs(s, i) > 0 THEN SubSeq(s, i, MatchHs(s, i))
    ELSE SearchHs(s, i + 1)

_extract_hs_from_output(text) == SearchHs(text, 1)

(***************************************************************************)
(* model_client.ask_model_for_hs                                           *)
(***************************************************************************)
NoCandidatesMsg == <<"K", "h", "o^", "n", "g", " ", "t", "i-", "m", " ", "dd", "u+", "o+.", "c", " ", "m", "a~", " ", "H", "S", " ", "u+'", "n", "g", " ", "v", "i", "e^", "n", " ", "n", "a-", "o", ".">>

NoSuitableMsg == <<"K", "h", "o^", "n", "g", " ", "t", "i-", "m", " ", "dd", "u+", "o+.", "c", " ", "m", "a~", " ", "H", "S", " ", "u+'", "n", "g", " ", "v", "i", "e^", "n", " ", "p", "h", "u-", " ", "h", "o+.", "p", ".">>

QuotaMsg == <<"U+1F6AB", " ", "H", "e^'", "t", " ", "g", "i", "o+'", "i", " ", "h", "a.", "n", " ", "G", "r", "o", "q", " ", "t", "r", "o", "n", "g", " ", "n", "g", "a-", "y", ",", " ", "v", "u", "i", " ", "l", "o-", "n", "g", " ", "t", "h", "u+?", " ", "l", "a.", "i", " ", "s", "a", "u", ".">>

ErrorPrefix == <<"U+26A0", "U+FE0F", " ", "L", "o^~", "i", " ", "k", "h", "i", " ", "g", "o.", "i", " ", "m", "o", "d", "e", "l", ":", " ">>

HsCodePrefix == <<"H", "S", " ", "c", "o", "d", "e", ":", " ">>

NamesHeader == <<"C", "a'", "c", " ", "t", "e^", "n", " ", "h", "a-", "n", "g", " ", "k", "h", "o+'", "p", " ", "t", "r", "o", "n", "g", " ", "d", "u+~", " ", "l", "i", "e^.", "u", ":">>

score_margin == 15

NoSecondScore == -9999

ContextTopK == 6

ContextMaxCharsDesc == 40

NamesCap == 12

SingleNamesCap == 8

MaxTokens == 40

\* "\n".join(lines)
RECURSIVE JoinLines(_)
JoinLines(lines) ==
    IF lines = <<>> THEN <<>>
    ELSE IF Len(lines) = 1 THEN lines[1]
    ELSE lines[1] \o <<"\n">> \o JoinLines(Tail(lines))

\* r.get("ten_hang") or r.get("description") or ""
NameOrDescription(r) == IF r.ten_hang # <<>> THEN r.ten_hang ELSE r.description

InSeq(x, seq) == \E i \in 1..Len(seq) : seq[i] = x

\* the stripped display names of rows, empty ones and repeats dropped
RECURSIVE CollectNames(_, _)
CollectNames(rows, names) ==
    IF rows = <<>> THEN names
    ELSE LET n == Strip(NameOrDescription(Head(rows))) IN
         CollectNames(Tail(rows), IF n # <<>> /\ ~InSeq(n, names) THEN Append(names, n) ELSE names)

\* "HS code: <formatted>" and, when there are names, the header and "- <name>" lines
ComposeAnswer(formatted, names, cap) ==
    JoinLines(<<HsCodePrefix \o formatted>>
              \o (IF names # <<>>
                  THEN <<NamesHeader>> \o [i \in 1..Len(FirstN(names, cap)) |-> <<"-", " ">> \o names[i]]
                  ELSE <<>>))

SameDigits(r, chosen) == StripNonDigits(r.hs_code) = StripNonDigits(chosen.hs_code)

\* [r for r in candidates if digits(r) == digits(chosen)]
RECURSIVE MatchedRows(_, _)
MatchedRows(rows, chosen) ==
    IF rows = <<>> THEN <<>>
    ELSE (IF SameDigits(Head(rows), chosen) THEN <<Head(rows)>> ELSE <<>>)
         \o MatchedRows(Tail(rows), chosen)

\* the answer for chosen, with the names of every candidate of the same digits
AnswerWithNames(chosen, cands) ==
    ComposeAnswer(format_hs_code(chosen.hs_code),
                  CollectNames(MatchedRows(cands, chosen), <<>>), NamesCap)

ContextTags == <<<<"m", "d", "f">>, <<"h", "d", "f">>, <<"p", "l", "y", "w", "o", "o", "d">>, <<"v", "e", "n", "e", "e", "r">>, <<"g", "o^~">>, <<"v", "a'", "n">>>>

\* ",".join(words)
RECURSIVE JoinComma(_)
JoinComma(words) ==
    IF words = <<>> THEN <<>>
    ELSE IF Len(words) = 1 THEN words[1]
    ELSE words[1] \o <<",">> \o JoinComma(Tail(words))

\* .replace(a, b) of single characters
ReplaceChar(s, a, b) == [i \in 1..Len(s) |-> IF s[i] = a THEN b ELSE s[i]]

\* the first "<number> mm" of text, as written but with "," for ".": nums[0], or ""
RECURSIVE FirstMmText(_, _)
FirstMmText(s, i) ==
    IF i > Len(s) THEN <<>>
    ELSE IF MatchNumMm(s, i).ok THEN ReplaceChar(MatchNumMm(s, i).out, ",", ".")
    ELSE FirstMmText(s, i + 1)

\* one line of the compact listing: f"{i}|HS={hs_raw}|d={desc}|n={nums_str}|t={tag_str}"
ContextLine(i, row, max_chars_desc) ==
    LET text == Lower(NameOrDescription(row)) IN
    IntToStr(i) \o <<"|", "H", "S", "=">> \o StripNonDigits(row.hs_code)
        \o <<"|", "d", "=">> \o Strip(ReplaceChar(FirstN(NameOrDescription(row), max_chars_desc), "\n", " "))
        \o <<"|", "n", "=">> \o FirstMmText(text, 1)
        \o <<"|", "t", "=">> \o JoinComma(WordsIn(ContextTags, text))

\* build_compact_context_for_llm listing every row, without the [:top_k] slice
build_compact_context_of_every_row(candidates_list, max_chars_desc, top_k) ==
    <<JoinLines([i \in 1..Len(candidates_list) |->
                    ContextLine(i, candidates_list[i], max_chars_desc)]),
      candidates_list>>

\* ask_model_for_hs.build_compact_context_for_llm: (the listing, the rows listed)
build_compact_context_for_llm(candidates_list, max_chars_desc, top_k) ==
    LET top == FirstN(candidates_list, top_k) IN
    <<JoinLines([i \in 1..Len(top) |-> ContextLine(i, top[i], max_chars_desc)]), top>>

\* f"{val}" of a float kept as a multiple of 1/Scale
RECURSIVE DropTrailingZeros(_)
DropTrailingZeros(ds) ==
    IF Len(ds) > 1 /\ ds[Len(ds)] = "0" THEN DropTrailingZeros(SubSeq(ds, 1, Len(ds) - 1)) ELSE ds

RECURSIVE PadZeros(_, _)
PadZeros(ds, n) == IF Len(ds) >= n THEN ds ELSE PadZeros(<<"0">> \o ds, n)

FloatToStr(v) ==
    IntToStr(v \div Scale) \o <<".">>
        \o DropTrailingZeros(PadZeros(IntToStr(v % Scale), IF MaxFracDigits = 0 THEN 1 ELSE MaxFracDigits))

\* a comparator label, as the text an f-string gives it
CompText(comp) ==
    CASE comp = "<=" -> <<"<", "=">> [] comp = ">=" -> <<">", "=">> [] comp = "==" -> <<"=", "=">>
      [] comp = "<= " -> <<"<", "=", " ">> [] comp = "<" -> <<"<">> [] comp = ">" -> <<">">>

\* ";".join(parts)
RECURSIVE JoinSemi(_)
JoinSemi(parts) ==
    IF parts = <<>> THEN <<>>
    ELSE IF Len(parts) = 1 THEN parts[1]
    ELSE parts[1] \o <<";">> \o JoinSemi(Tail(parts))

\* ask_model_for_hs.build_specs_summary_local
build_specs_summary_local(specs) ==
    JoinSemi(
        (IF specs.material # <<>>
         THEN <<<<"m", "a", "t", "e", "r", "i", "a", "l", ":">> \o JoinComma(FirstN(specs.material, 3))>> ELSE <<>>)
        \o (IF specs.thickness # <<>>
            THEN LET comp == specs.thickness[1][1]
                     val == specs.thickness[1][2]
                 IN <<<<"t", "h", "i", "c", "k", "n", "e", "s", "s", ":">> \o (IF comp # PyNone THEN CompText(comp) ELSE <<"=", "=">>)
                      \o FloatToStr(val)>>
            ELSE <<>>)
        \o (IF specs.keywords # <<>>
            THEN <<<<"k", "w", ":">> \o JoinComma(FirstN(specs.keywords, 3))>> ELSE <<>>))

Returned(text, locals) ==
    [returned |-> TRUE, result |-> text, locals |-> locals, request |-> <<>>]

\* the only element of a one-element set: binds a local of the code to its value
Only(S) == CHOOSE x \in S : TRUE

\* ask_model_for_hs from the scored list on
ask_scored(query, cands, specs, filtered, scored_list) ==
    IF scored_list = <<>>
    THEN Returned(NoSuitableMsg, [specs |-> specs, filtered |-> filtered, top_candidates |-> <<>>])
    ELSE
    LET top_score == scored_list[1][1]
        second_score == IF Len(scored_list) > 1 THEN scored_list[2][1] ELSE NoSecondScore
    IN
    IF top_score >= second_score + score_margin
    THEN Returned(AnswerWithNames(scored_list[1][2], cands),
                  [specs |-> specs, filtered |-> filtered, top_candidates |-> <<>>])
    ELSE
    Only({[returned |-> FALSE,
           result |-> <<>>,
           locals |-> [specs |-> specs, filtered |-> filtered, top_candidates |-> context[2]],
           request |-> [model |-> "MODEL_NAME",
                        query |-> query,
                        specs_summary |-> build_specs_summary_local(specs),
                        context_str |-> context[1],
                        temperature |-> 0,
                        max_tokens |-> MaxTokens]] :
          context \in {build_compact_context_for_llm(RowsOf(scored_list),
                                                     ContextMaxCharsDesc, ContextTopK)}})

\* ask_filtered without the single-candidate shortcut of lines 259-273
ask_filtered_without_shortcut(query, cands, specs, filtered) ==
    Only({ask_scored(query, cands, specs, filtered, scored_list) :
          scored_list \in {SortByScoreDesc(ScoreRows(filtered, specs))}})

\* ask_model_for_hs from the filtered list on
ask_filtered(query, cands, specs, filtered) ==
    IF Len(filtered) = 1
    THEN Returned(ComposeAnswer(format_hs_code(filtered[1].hs_code),
                                CollectNames(<<filtered[1]>>, <<>>), SingleNamesCap),
                  [specs |-> specs, filtered |-> filtered, top_candidates |-> <<>>])
    ELSE Only({ask_scored(query, cands, specs, filtered, scored_list) :
               scored_list \in {SortByScoreDesc(ScoreRows(filtered, specs))}})

\* ask_model_for_hs from the parsed specification on
ask_parsed(query, cands, specs) ==
    Only({ask_filtered(query, cands, specs, filtered) :
          filtered \in {filter_candidates_by_specs(cands, specs)}})

\* ask_model_for_hs up to the remote call: either its return value, or the
\* request it sends and the locals it keeps
ask_before_call(query, cands) ==
    IF cands = <<>> THEN Returned(NoCandidatesMsg, NoLocals)
    ELSE Only({ask_parsed(query, cands, specs) : specs \in {parse_specs_from_query(query)}})

\* the first row of rows whose digits are chosen_digits, as a list of at most one row
RECURSIVE FirstWithDigits(_, _)
FirstWithDigits(rows, chosen_digits) ==
    IF rows = <<>> THEN <<>>
    ELSE IF StripNonDigits(Head(rows).hs_code) = chosen_digits THEN <<Head(rows)>>
    ELSE FirstWithDigits(Tail(rows), chosen_digits)

\* filtered[0] if filtered else candidates[0]
TopFiltered(locals, cands) == IF locals.filtered # <<>> THEN locals.filtered[1] ELSE cands[1]

\* ChosenFor trusting the model: a code found in no candidate is kept as the model wrote it
ChosenFor_trusting_model(model_output, locals, cands) ==
    LET chosen_text == _extract_hs_from_output(model_output) IN
    IF chosen_text = <<>> THEN TopFiltered(locals, cands)
    ELSE LET chosen_digits == StripNonDigits(chosen_text)
             found == FirstWithDigits(locals.top_candidates, chosen_digits)
                      \o FirstWithDigits(locals.filtered, chosen_digits)
                      \o FirstWithDigits(cands, chosen_digits)
         IN IF found # <<>> THEN found[1]
            ELSE [hs_code |-> chosen_text, ten_hang |-> <<>>, description |-> <<>>]

\* the candidate the model's reply is mapped back to
ChosenFor(model_output, locals, cands) ==
    LET chosen_text == _extract_hs_from_output(model_output) IN
    IF chosen_text = <<>> THEN TopFiltered(locals, cands)
    ELSE LET chosen_digits == StripNonDigits(chosen_text)
             found == FirstWithDigits(locals.top_candidates, chosen_digits)
                      \o FirstWithDigits(locals.filtered, chosen_digits)
                      \o FirstWithDigits(cands, chosen_digits)
         IN IF found # <<>> THEN found[1] ELSE TopFiltered(locals, cands)

\* the exception classes the remote call raises; each is a subclass of Exception
RemoteExceptions == {"RateLimitError", "APIConnectionError", "APIStatusError", "IndexError"}

ExceptionSubclasses == RemoteExceptions

\* ask_after_call whose "except Exception" surfaces the error text even when filtered
\* is not empty
ask_after_call_surfacing_error(outcome, locals, cands) ==
    IF outcome.kind = "raise"
    THEN IF outcome.exc = "RateLimitError" THEN [kind |-> "return", text |-> QuotaMsg]
         ELSE IF outcome.exc \in ExceptionSubclasses
         THEN [kind |-> "return", text |-> ErrorPrefix \o outcome.text]
         ELSE [kind |-> "raise", text |-> outcome.text]
    ELSE [kind |-> "return",
          text |-> AnswerWithNames(ChosenFor(outcome.content, locals, cands), cands)]

\* ask_model_for_hs from the remote call's outcome on: what it returns or raises
ask_after_call(outcome, locals, cands) ==
    IF outcome.kind = "raise"
    THEN IF outcome.exc = "RateLimitError" THEN [kind |-> "return", text |-> QuotaMsg]
         ELSE IF outcome.exc \in ExceptionSubclasses
         THEN IF locals.filtered # <<>>
              THEN [kind |-> "return",
                    text |-> HsCodePrefix \o format_hs_code(locals.filtered[1].hs_code)]
              ELSE [kind |-> "return", text |-> ErrorPrefix \o outcome.text]
         ELSE [kind |-> "raise", text |-> outcome.text]
    ELSE [kind |-> "return",
          text |-> AnswerWithNames(ChosenFor(outcome.content, locals, cands), cands)]

(***************************************************************************)
(* The classification client as a process: ask_model_for_hs runs up to the *)
(* remote call (AskStart), the hosted model answers or fails, and          *)
(* ask_model_for_hs runs on from there (AskReply).                         *)
(***************************************************************************)
AskStart ==
    /\ pc = "classify"
    /\ \E b \in {ask_before_call(user_query, candidates)} :
       /\ ask' = b.locals
       /\ IF b.returned
          THEN /\ result' = b.result
               /\ pc' = "classified"
               /\ stages' = stages \o <<"classify.call", "classify.return">>
               /\ UNCHANGED llm_log
          ELSE /\ llm_log' = Append(llm_log, b.request)
               /\ pc' = "await_model"
               /\ stages' = Append(stages, "classify.call")
               /\ UNCHANGED result
    /\ UNCHANGED <<user_query, candidates, llm_outcome>>
    /\ UNCHANGED <<PureVars, WebLocals>>

\* the replies and failures of the hosted model; content "" also stands for None,
\* which "content or ''" turns into ""
ModelReplies ==
    {<<"H", "S", " ", "c", "o", "d", "e", ":", " ", "4", "4", "1", "1", ".", "1", "3", ".", "0", "0">>, <<"4", "4", "1", "1", "1", "2", "0", "0">>, <<"H", "S", " ", "c", "o", "d", "e", ":", " ", "4", "4", "1", "1", ".", "1", "2", ".", "0", "0">>, <<"6", "4", "0", "3">>,
     <<"9", "9", "9", "9", ".", "9", "9", ".", "9", "9">>, <<>>}

ModelOutcomes ==
    {[kind |-> "completion", content |-> t] : t \in ModelReplies}
    \cup {[kind |-> "raise", exc |-> e, text |-> <<"b", "o", "o", "m">>] : e \in RemoteExceptions}

AskReply ==
    /\ pc = "await_model"
    /\ \E outcome \in ModelOutcomes :
          \E r \in {ask_after_call(outcome, ask, candidates)} :
          /\ llm_outcome' = outcome
          /\ IF r.kind = "return"
             THEN /\ result' = r.text /\ pc' = "classified"
                  /\ stages' = Append(stages, "classify.return")
             ELSE /\ result' = r.text /\ pc' = "raised"
                  /\ UNCHANGED stages
    /\ UNCHANGED <<user_query, candidates, ask, llm_log>>
    /\ UNCHANGED <<PureVars, WebLocals>>

(***************************************************************************)
(* Inputs: catalog rows, queries and candidate lists.                      *)
(***************************************************************************)
Row(hs, name, desc) == [hs_code |-> hs, ten_hang |-> name, description |-> desc]

RowMdf3 == Row(<<"4", "4", "1", "1", "1", "2", "0", "0">>, <<"M", "D", "F", " ", "3", " ", "m", "m">>, <<"v", "a'", "n", " ", "m", "d", "f", " ", "3", " ", "m", "m">>)

RowMdf10 == Row(<<"4", "4", "1", "1", ".", "1", "3", ".", "0", "0">>, <<>>, <<"m", "d", "f", " ", "1", "0", " ", "m", "m">>)

RowHdf == Row(<<"4", "4", "1", "1", "1", "4">>, <<"h", "d", "f">>, <<"h", "d", "f", " ", "x">>)

RowShoe == Row(<<"6", "4", "0", "3">>, <<"g", "i", "a-", "y">>, <<"g", "i", "a-", "y", " ", "t", "r", "e?", " ", "e", "m">>)

RowWood == Row(<<"4", "4", "1", "1", ".", "1", "2", ".", "0", "0">>, <<"g", "o^~">>, <<"g", "o^~">>)

AskRows == {RowMdf3, RowMdf10, RowHdf, RowShoe, RowWood}

AskQueries == {<<"m", "d", "f">>, <<"M", "D", "F", " ", "d", "u+", "o+'", "i", " ", "4", " ", "m", "m">>, <<"x">>, <<"g", "i", "a-", "y">>, <<"m", "d", "f", " ", ">", "5", "m", "m">>}

MaxCands == 3

MaxPad == 13

SeqsUpTo(S, n) == UNION {[1..k -> S] : k \in 0..n}

Rep(x, k) == [i \in 1..k |-> x]

\* every short list, and the long lists that are a short head and one row repeated
CandidateLists ==
    SeqsUpTo(AskRows, MaxCands)
    \cup {pre \o Rep(r, k) : pre \in SeqsUpTo(AskRows, 1), r \in AskRows, k \in (MaxCands + 1)..MaxPad}

InitAsk ==
    /\ pc = "classify"
    /\ user_query \in AskQueries
    /\ candidates \in CandidateLists
    /\ ask = NoLocals /\ llm_log = <<>> /\ llm_outcome = NoOutcome /\ result = <<>>
    /\ PureIdle /\ WebIdle

NextAsk == AskStart \/ AskReply

SpecAsk == InitAsk /\ [][NextAsk]_vars

(***************************************************************************)
(* Harness for format_hs_code: every raw string over a small alphabet.     *)
(***************************************************************************)
MaxRawLen == 9

RawAlphabet == {"1", "2", "."}

RawCodes == SeqsUpTo(RawAlphabet, MaxRawLen)

InitFormat ==
    /\ pc = "call"
    /\ fn = "format_hs_code"
    /\ arg \in RawCodes
    /\ ret = <<>>
    /\ AskIdle /\ WebIdle

CallFormat ==
    /\ pc = "call" /\ fn = "format_hs_code"
    /\ ret' = format_hs_code(arg)
    /\ pc' = "return"
    /\ UNCHANGED <<fn, arg>>
    /\ UNCHANGED <<AskVars, WebVars>>

NextFormat == CallFormat

SpecFormat == InitFormat /\ [][NextFormat]_vars

\* C2: format_hs_code strips the non-digits; 8 digits give dddd.dd.dd, 6 digits
\* give dddd.dd, and every other digit count gives the raw string back unchanged.
C2_FormatHsCode ==
    (fn = "format_hs_code" /\ pc = "return") =>
        LET d == StripNonDigits(arg) IN
        /\ \A i \in 1..Len(d) : d[i] \in Digit
        /\ Len(d) = Cardinality({i \in 1..Len(arg) : arg[i] \in Digit})
        /\ Len(d) = 8 =>
              /\ Len(ret) = 10
              /\ ret[5] = "." /\ ret[8] = "."
              /\ <<ret[1], ret[2], ret[3], ret[4], ret[6], ret[7], ret[9], ret[10]>> = d
        /\ Len(d) = 6 =>
              /\ Len(ret) = 7
              /\ ret[5] = "."
              /\ <<ret[1], ret[2], ret[3], ret[4], ret[6], ret[7]>> = d
        /\ Len(d) \notin {6, 8} => ret = arg

\* C2 witness: a raw code of 8 digits with a misplaced dot was regrouped.
C2_Witness_Grouped ==
    /\ fn = "format_hs_code" /\ pc = "return"
    /\ Len(StripNonDigits(arg)) = 8
    /\ Len(arg) = 9 /\ arg[2] = "."
    /\ ret # arg

(***************************************************************************)
(* Claims about ask_model_for_hs, checked under SpecAsk.                   *)
(***************************************************************************)
\* the first line of a text
RECURSIVE FirstLine(_)
FirstLine(s) ==
    IF s = <<>> \/ Head(s) = "\n" THEN <<>> ELSE <<Head(s)>> \o FirstLine(Tail(s))

\* the spec score of every row of rows
SpecScores(rows, specs) == [i \in 1..Len(rows) |-> candidate_matches_specs(rows[i], specs).score]

\* row i of rows has the best score of rows
HasMaxScore(scores, i) == \A j \in 1..Len(scores) : scores[i] >= scores[j]

\* one row of rows beats every other by at least the margin
ClearMargin(scores) ==
    \E i \in 1..Len(scores) : \A j \in 1..Len(scores) \ {i} : scores[i] >= scores[j] + score_margin

RateLimited == llm_outcome.kind = "raise" /\ llm_outcome.exc = "RateLimitError"

\* C1: for a non-empty candidate list, whatever the query and whatever the
\* remote call's outcome other than the rate limit, ask_model_for_hs returns, and
\* the code in the first line of its result is format_hs_code of the hs_code of
\* one of the supplied candidates.
C1_CodeComesFromCandidates ==
    (pc \in {"classified", "raised"} /\ candidates # <<>> /\ ~RateLimited) =>
        /\ pc = "classified"
        /\ \E i \in 1..Len(candidates) :
              FirstLine(result) = HsCodePrefix \o format_hs_code(candidates[i].hs_code)

\* the model replied with a well-formed code that no candidate has, and the answer is out
C1_Witness_InventedCode ==
    /\ pc = "classified"
    /\ candidates # <<>>
    /\ llm_outcome.kind = "completion"
    /\ llm_outcome.content = <<"9", "9", "9", "9", ".", "9", "9", ".", "9", "9">>
    /\ FirstLine(result) # HsCodePrefix \o llm_outcome.content

\* C3: when filtering a non-empty candidate list leaves exactly one row,
\* ask_model_for_hs returns "HS code: " and that row's formatted code, followed
\* by the row's own display name when it has one, and no request has been sent
\* to the hosted model.
C3_SingleSurvivorNoRemoteCall ==
    (candidates # <<>> /\ Len(ask.filtered) = 1) =>
        /\ pc = "classified"
        /\ llm_log = <<>>
        /\ \A own \in {Strip(NameOrDescription(ask.filtered[1]))} :
              result = HsCodePrefix \o format_hs_code(ask.filtered[1].hs_code)
                       \o (IF own # <<>>
                           THEN <<"\n">> \o NamesHeader \o <<"\n", "-", " ">> \o own
                           ELSE <<>>)

\* filtering cut several candidates, one of them with the survivor's digits, down to one
C3_Witness_FilteredToOne ==
    /\ pc = "classified"
    /\ Len(candidates) > 1
    /\ Len(ask.filtered) = 1
    /\ \E i \in 1..Len(candidates) :
          /\ candidates[i] # ask.filtered[1]
          /\ SameDigits(candidates[i], ask.filtered[1])

C4_Witness_ListingTruncated ==
    /\ Len(llm_log) = 1
    /\ Len(ask.filtered) > ContextTopK
    /\ Len(ask.top_candidates) = ContextTopK

C5_FailureFallback ==
    /\ pc # "raised"
    /\ (pc = "classified" /\ llm_outcome.kind = "raise") =>
          IF llm_outcome.exc = "RateLimitError"
          THEN result = QuotaMsg /\ StripNonDigits(result) = <<>>
          ELSE /\ \E i \in 1..Len(ask.filtered) :
                     /\ HasMaxScore(SpecScores(ask.filtered, ask.specs), i)
                     /\ result = HsCodePrefix \o format_hs_code(ask.filtered[i].hs_code)
               /\ (StartsWithAt(result, 1, ErrorPrefix) => ask.filtered = <<>>)

\* the call failed otherwise than by the rate limit, on a filtered list whose rows
\* differ in score, and the answer is out
C5_Witness_OtherFailure ==
    /\ pc = "classified"
    /\ llm_outcome.kind = "raise"
    /\ llm_outcome.exc # "RateLimitError"
    /\ Len(ask.filtered) > 1
    /\ \E i \in 1..Len(ask.filtered) : ~HasMaxScore(SpecScores(ask.filtered, ask.specs), i)

(***************************************************************************)
(* Harness for filter_candidates_by_specs: the candidate lists of SpecAsk  *)
(* against the specifications parsed from its queries.                     *)
(***************************************************************************)
FilterSpecs == {parse_specs_from_query(q) : q \in AskQueries}

InitFilter ==
    /\ pc = "call"
    /\ fn = "filter_candidates_by_specs"
    /\ arg \in CandidateLists \X FilterSpecs
    /\ ret = <<>>
    /\ AskIdle /\ WebIdle

CallFilter ==
    /\ pc = "call" /\ fn = "filter_candidates_by_specs"
    /\ ret' = filter_candidates_by_specs(arg[1], arg[2])
    /\ pc' = "return"
    /\ UNCHANGED <<fn, arg>>
    /\ UNCHANGED <<AskVars, WebVars>>

NextFilter == CallFilter

SpecFilter == InitFilter /\ [][NextFilter]_vars

\* how often row x occurs in rows
Occurrences(x, rows) == Cardinality({i \in 1..Len(rows) : rows[i] = x})

\* every entry of sub is an entry of rows, no more often than it occurs there
IsSelectionOf(sub, rows) ==
    \A i \in 1..Len(sub) : Occurrences(sub[i], sub) <= Occurrences(sub[i], rows)

\* C6: if the best spec score over the candidates is 0, filter_candidates_by_specs
\* returns the input list itself; otherwise it returns only rows of score > 0,
\* in non-increasing score order, at most FilterCap of them. Either way every
\* returned row is a row of the input (no more often than there) and the
\* result is non-empty when the input is.
C6_FilterBySpec ==
    (fn = "filter_candidates_by_specs" /\ pc = "return") =>
        \A in_scores \in {SpecScores(arg[1], arg[2])}, out_scores \in {SpecScores(ret, arg[2])} :
            /\ (arg[1] # <<>> /\ \A i \in 1..Len(arg[1]) : in_scores[i] <= 0) => ret = arg[1]
            /\ (\E i \in 1..Len(arg[1]) : in_scores[i] > 0) =>
                  /\ \A i \in 1..Len(ret) : out_scores[i] > 0
                  /\ \A i \in 1..(Len(ret) - 1) : out_scores[i] >= out_scores[i + 1]
                  /\ Len(ret) <= FilterCap
            /\ IsSelectionOf(ret, arg[1])
            /\ arg[1] # <<>> => ret # <<>>

\* more than FilterCap rows scored above 0, a row of score 0 was dropped, and
\* FilterCap rows came back
C6_Witness_CappedAndFiltered ==
    /\ fn = "filter_candidates_by_specs" /\ pc = "return"
    /\ Len(arg[1]) > FilterCap + 1
    /\ Len(ret) = FilterCap
    /\ \E i \in 1..Len(arg[1]) : candidate_matches_specs(arg[1][i], arg[2]).score = 0

(***************************************************************************)
(* Harness for candidate_matches_specs: rows with known mm-numbers against *)
(* lists of thickness constraints.                                         *)
(***************************************************************************)
MaxConstraints == 2

\* the comparators parse_thickness_from_text emits
Comparators == {"<=", ">=", "==", PyNone, "<= "}

ThicknessValues == {3 * Scale, 4 * Scale, 5 * Scale, 10 * Scale}

ThicknessLists == SeqsUpTo(Comparators \X ThicknessValues, MaxConstraints)

RowTwoSizes == Row(<<"4", "4", "1", "1", ".", "1", "4", ".", "0", "0">>, <<"v", "a'", "n", " ", "1", "0", " ", "m", "m">>, <<"m", "d", "f", " ", "1", "0", " ", "m", "m", " ", "h", "o", "a(.", "c", " ", "3", " ", "m", "m">>)

MatchRows == {RowMdf3, RowMdf10, RowHdf, RowTwoSizes}

MatchWords == {<<>>, <<<<"m", "d", "f">>>>}

InitMatch ==
    /\ pc = "call"
    /\ fn = "candidate_matches_specs"
    /\ arg \in MatchRows \X [material : MatchWords, keywords : {<<>>}, thickness : ThicknessLists]
    /\ ret = <<>>
    /\ AskIdle /\ WebIdle

CallMatch ==
    /\ pc = "call" /\ fn = "candidate_matches_specs"
    /\ ret' = candidate_matches_specs(arg[1], arg[2])
    /\ pc' = "return"
    /\ UNCHANGED <<fn, arg>>
    /\ UNCHANGED <<AskVars, WebVars>>

NextMatch == CallMatch

SpecMatch == InitMatch /\ [][NextMatch]_vars

\* some number of nums satisfies the constraint c = (comparator, value)
Satisfies(c, nums) ==
    \E k \in 1..Len(nums) :
        \/ c[1] \in {"<=", PyNone} /\ nums[k] <= c[2]
        \/ c[1] = ">=" /\ nums[k] >= c[2]
        \/ c[1] = "==" /\ Abs(nums[k] - c[2]) * 1000000 < Scale

RECURSIVE WordRunEnd(_, _)
WordRunEnd(s, i) ==
    IF i <= Len(s) /\ IsWordChar(s[i]) THEN WordRunEnd(s, i + 1) ELSE i - 1

\* re.findall(r"\w+", s) from index i on
RECURSIVE FindWords(_, _)
FindWords(s, i) ==
    IF i > Len(s) THEN <<>>
    ELSE IF IsWordChar(s[i])
         THEN <<SubSeq(s, i, WordRunEnd(s, i))>> \o FindWords(s, WordRunEnd(s, i) + 1)
         ELSE FindWords(s, i + 1)

_tokenize(text) == FindWords(Lower(text), 1)

\* set(tokens)
ToSet(seq) == {seq[i] : i \in 1..Len(seq)}

MaxOf(S) == CHOOSE x \in S : \A y \in S : y <= x

MinOf(S) == CHOOSE x \in S : \A y \in S : x <= y

\* a[i..i+k-1] = b[j..j+k-1]
SameBlock(a, b, i, j, k) ==
    /\ i + k - 1 <= Len(a)
    /\ j + k - 1 <= Len(b)
    /\ \A d \in 0..(k - 1) : a[i + d] = b[j + d]

\* the starts (i, j) of the common blocks of size k
Blocks(a, b, k) == {ij \in (1..Len(a)) \X (1..Len(b)) : SameBlock(a, b, ij[1], ij[2], k)}

\* difflib.SequenceMatcher.find_longest_match without junk: the longest common
\* block, the earliest in a among the longest, the earliest in b among those
find_longest_match(a, b) ==
    Only({IF size = 0 THEN <<1, 1, 0>>
          ELSE Only({<<besti, MinOf({ij[2] : ij \in {x \in Blocks(a, b, size) : x[1] = besti}}), size>> :
                     besti \in {MinOf({ij[1] : ij \in Blocks(a, b, size)})}}) :
          size \in {MaxOf({k \in 0..Len(a) : k = 0 \/ Blocks(a, b, k) # {}})}})

\* the summed size of SequenceMatcher.get_matching_blocks(): the longest block,
\* then the same to its left and to its right
RECURSIVE MatchedSize(_, _)
MatchedSize(a, b) ==
    IF a = <<>> \/ b = <<>> THEN 0
    ELSE Only({IF m[3] = 0 THEN 0
               ELSE m[3] + MatchedSize(SubSeq(a, 1, m[1] - 1), SubSeq(b, 1, m[2] - 1))
                         + MatchedSize(SubSeq(a, m[1] + m[3], Len(a)), SubSeq(b, m[2] + m[3], Len(b))) :
               m \in {find_longest_match(a, b)}})

\* a fraction num/den, den > 0
Frac(num, den) == [num |-> num, den |-> den]

FracLess(x, y) == x.num * y.den < y.num * x.den

FracEq(x, y) == x.num * y.den = y.num * x.den

\* difflib.SequenceMatcher(None, a, b).ratio(): 2.0 * matches / (len(a) + len(b)), 1.0
\* for two empty strings
ratio(a, b) ==
    IF Len(a) + Len(b) = 0 THEN Frac(1, 1) ELSE Frac(2 * MatchedSize(a, b), Len(a) + Len(b))

\* find_candidate_rows.score_row: 2.0 * token_ratio + char_ratio
score_row(query, desc) ==
    LET query_token_set == ToSet(_tokenize(query))
        common == query_token_set \cap ToSet(_tokenize(desc))
        denominator == IF Cardinality(query_token_set) > 1 THEN Cardinality(query_token_set) ELSE 1
        char_ratio == ratio(Lower(query), Lower(desc))
    IN Frac(2 * Cardinality(common) * char_ratio.den + char_ratio.num * denominator,
            denominator * char_ratio.den)

\* tmp with the columns digits and code_len
WithDigits(df) ==
    [i \in 1..Len(df) |->
        [hs_code |-> df[i].hs_code, ten_hang |-> df[i].ten_hang, description |-> df[i].description,
         digits |-> StripNonDigits(df[i].hs_code), code_len |-> Len(StripNonDigits(df[i].hs_code))]]

\* tmp with the column score
WithScore(tmp, query) ==
    [i \in 1..Len(tmp) |->
        [hs_code |-> tmp[i].hs_code, ten_hang |-> tmp[i].ten_hang, description |-> tmp[i].description,
         digits |-> tmp[i].digits, code_len |-> tmp[i].code_len,
         score |-> score_row(query, tmp[i].description)]]

\* the rows of rows whose code_len is n
RECURSIVE OfCodeLen(_, _)
OfCodeLen(rows, n) ==
    IF rows = <<>> THEN <<>>
    ELSE (IF Head(rows).code_len = n THEN <<Head(rows)>> ELSE <<>>) \o OfCodeLen(Tail(rows), n)

\* rows[rows["code_len"] == rows["code_len"].max()]
MostDetailed(rows) ==
    IF rows = <<>> THEN <<>>
    ELSE OfCodeLen(rows, MaxOf({rows[i].code_len : i \in 1..Len(rows)}))

\* every order of rows
Orders(rows) ==
    {[i \in 1..Len(rows) |-> rows[p[i]]] :
        p \in {q \in [1..Len(rows) -> 1..Len(rows)] : \A i, j \in 1..Len(rows) : q[i] = q[j] => i = j}}

\* .head(top_k)
head(rows, top_k) == FirstN(rows, top_k)

\* tmp.sort_values(by=["code_len"], ascending=False) and the rows of the greatest
\* code_len, cut to top_k. A sort by one column is numpy's quicksort, which is not
\* stable: rows of equal code_len come in any order.
DetailedFallback(tmp, top_k) == {head(rows, top_k) : rows \in Orders(MostDetailed(tmp))}

\* the order of Python's str on strings of digits
RECURSIVE StrLess(_, _)
StrLess(a, b) ==
    IF b = <<>> THEN FALSE
    ELSE IF a = <<>> THEN TRUE
    ELSE IF Head(a) # Head(b) THEN DigitValue(Head(a)) < DigitValue(Head(b))
    ELSE StrLess(Tail(a), Tail(b))

\* x comes strictly before y under by=["score", "code_len", "digits"],
\* ascending=[False, False, True]
Precedes(x, y) ==
    \/ FracLess(y.score, x.score)
    \/ /\ FracEq(x.score, y.score)
       /\ \/ x.code_len > y.code_len
          \/ x.code_len = y.code_len /\ StrLess(x.digits, y.digits)

\* x put behind every row of sorted that x does not strictly precede
RECURSIVE InsertRow(_, _)
InsertRow(x, sorted) ==
    IF sorted = <<>> THEN <<x>>
    ELSE IF Precedes(x, Head(sorted)) THEN <<x>> \o sorted
    ELSE <<Head(sorted)>> \o InsertRow(x, Tail(sorted))

\* sort_values on several columns: a stable sort, equal rows keep their order
RECURSIVE SortRows(_)
SortRows(rows) ==
    IF rows = <<>> THEN <<>>
    ELSE InsertRow(rows[Len(rows)], SortRows(SubSeq(rows, 1, Len(rows) - 1)))

HasPositiveScore(r) == r.score.num > 0

\* ScoredCandidates without the filter on score
ScoredCandidates_unfiltered(tmp) == tmp

\* candidates = tmp[tmp["score"] > 0], or tmp when that is empty
ScoredCandidates(tmp) ==
    IF SelectSeq(tmp, HasPositiveScore) = <<>> THEN tmp ELSE SelectSeq(tmp, HasPositiveScore)

\* find_candidate_rows from the scored rows on
RankScored(tmp, top_k) ==
    IF \A i \in 1..Len(tmp) : tmp[i].score.num <= 0
    THEN DetailedFallback(tmp, top_k)
    ELSE {head(SortRows(MostDetailed(ScoredCandidates(tmp))), top_k)}

DefaultTopK == 50

\* the set of the DataFrames find_candidate_rows can return
find_candidate_rows(df, query, top_k) ==
    IF df = <<>> THEN {df}
    ELSE IF ToSet(_tokenize(query)) = {} THEN DetailedFallback(WithDigits(df), top_k)
    ELSE UNION {RankScored(tmp, top_k) : tmp \in {WithScore(WithDigits(df), query)}}

(***************************************************************************)
(* Harness for find_candidate_rows: small catalogs, queries with and       *)
(* without tokens, with and without a match.                               *)
(***************************************************************************)
SearchRows ==
    {Row(<<"4", "4", "1", "1">>, <<"g", "o^~">>, <<"m", "d", "f">>),
     Row(<<"4", "4", ".", "1", "2">>, <<>>, <<"m", "d", "f", " ", "3">>),
     Row(<<"4", "4", "1", "1", ".", "1", "2", ".", "0", "0">>, <<"m", "d", "f">>, <<"m", "d", "f", " ", "3">>),
     Row(<<"4", "4", "1", "1", "1", "4", "0", "0">>, <<"m", "d", "f">>, <<"m", "d", "f", " ", "3">>),
     Row(<<"8", "7", "0", "3", ".", "0", "0", ".", "0", "0">>, <<"x", "e">>, <<"x", "e">>),
     Row(<<"6", "4", "0", "3", "0", "0">>, <<"g", "i", "a-", "y">>, <<"g", "i", "a-", "y">>)}

SearchQueries == {<<>>, <<"?">>, <<"m", "d", "f">>, <<"M", "D", "F", " ", "3", "?">>, <<"g", "i", "a-", "y">>, <<"x", "y", "z">>}

MaxCatalog == 3

Catalogs == SeqsUpTo(SearchRows, MaxCatalog) \ {<<>>}

MaxTopK == 2

TopKs == (1..MaxTopK) \cup {DefaultTopK}

InitSearch ==
    /\ pc = "call"
    /\ fn = "find_candidate_rows"
    /\ arg \in Catalogs \X SearchQueries \X TopKs
    /\ ret = <<>>
    /\ AskIdle /\ WebIdle

CallSearch ==
    /\ pc = "call" /\ fn = "find_candidate_rows"
    /\ ret' \in find_candidate_rows(arg[1], arg[2], arg[3])
    /\ pc' = "return"
    /\ UNCHANGED <<fn, arg>>
    /\ UNCHANGED <<AskVars, WebVars>>

NextSearch == CallSearch

SpecSearch == InitSearch /\ [][NextSearch]_vars

CodeLen(r) == Len(StripNonDigits(r.hs_code))

\* C8: on a non-empty catalog find_candidate_rows returns at most top_k rows, all
\* of one digit length. If the query has no token or every row scores 0, that
\* length is the greatest in the whole catalog; otherwise every returned row
\* scores above 0, the length is the greatest among the rows that score above
\* 0, and the rows come by score descending, then digits ascending.
C8_CandidateRanking ==
    (fn = "find_candidate_rows" /\ pc = "return" /\ arg[1] # <<>>) =>
        \A scores \in {[i \in 1..Len(arg[1]) |-> score_row(arg[2], arg[1][i].description)]} :
            /\ Len(ret) <= arg[3]
            /\ \A i, j \in 1..Len(ret) : CodeLen(ret[i]) = CodeLen(ret[j])
            /\ IF _tokenize(arg[2]) = <<>> \/ \A i \in 1..Len(arg[1]) : scores[i].num = 0
               THEN \A i \in 1..Len(ret), j \in 1..Len(arg[1]) : CodeLen(ret[i]) >= CodeLen(arg[1][j])
               ELSE /\ \A i \in 1..Len(ret) :
                          /\ score_row(arg[2], ret[i].description).num > 0
                          /\ \A j \in 1..Len(arg[1]) :
                                scores[j].num > 0 => CodeLen(ret[i]) >= CodeLen(arg[1][j])
                    /\ \A i \in 1..(Len(ret) - 1) :
                          \A x \in {score_row(arg[2], ret[i].description)},
                             y \in {score_row(arg[2], ret[i + 1].description)} :
                             \/ FracLess(y, x)
                             \/ FracEq(x, y) /\ ~StrLess(StripNonDigits(ret[i + 1].hs_code),
                                                         StripNonDigits(ret[i].hs_code))

\* a row of the longest code scored 0 and was left out, and the rows returned,
\* shorter codes of different scores, came back best first although the catalog
\* had them the other way round
C8_Witness_ShorterCodesRanked ==
    /\ fn = "find_candidate_rows" /\ pc = "return"
    /\ Len(arg[1]) = 3 /\ Len(ret) = 2
    /\ \E j \in 1..Len(arg[1]) :
          /\ score_row(arg[2], arg[1][j].description).num = 0
          /\ CodeLen(arg[1][j]) > CodeLen(ret[1])
    /\ FracLess(ret[2].score, ret[1].score)
    /\ \E i, j \in 1..Len(arg[1]) :
          i < j /\ arg[1][i].hs_code = ret[2].hs_code /\ arg[1][j].hs_code = ret[1].hs_code

(***************************************************************************)
(* app.py: extract_hs_from_result, fetch_caselaw_hierarchy and index.      *)
(* A dict is a function on its keys; the empty dict is the empty function. *)
(***************************************************************************)
\* the digits of the first HS-shaped token of the text, the empty tuple for None
extract_hs_from_result(res) ==
    IF res = <<>> THEN <<>> ELSE StripNonDigits(SearchHs(res, 1))

ChapterWord == <<"C", "h", "u+", "o+", "n", "g">>

\* re.match(r"^\d{4,8}$", s)
IsCodeLine(s) == Len(s) \in 4..8 /\ \A k \in 1..Len(s) : IsDigit(s[k])

\* re.match(r"^(\d{4,8})\b(.*)$", ln): the run of digits ln starts with is 4 to 8
\* long and a word boundary follows it
IsGroupLine(ln) ==
    /\ DigitRunEnd(ln, 1) \in 4..8
    /\ (DigitRunEnd(ln, 1) = Len(ln) \/ ~IsWordChar(ln[DigitRunEnd(ln, 1) + 1]))

\* s.strip(chars)
RECURSIVE StripChars(_, _)
StripChars(s, chars) ==
    IF s = <<>> THEN s
    ELSE IF Head(s) \in chars THEN StripChars(Tail(s), chars)
    ELSE IF s[Len(s)] \in chars THEN StripChars(SubSeq(s, 1, Len(s) - 1), chars)
    ELSE s

\* the line below line i when it reads as a description: neither a chapter line
\* nor a bare code; the empty text otherwise
Lookahead(lines, i) ==
    IF i + 1 <= Len(lines) /\ ~StartsWithAt(lines[i + 1], 1, ChapterWord) /\ ~IsCodeLine(lines[i + 1])
    THEN lines[i + 1]
    ELSE <<>>

\* f"{head} - {desc}" with an en dash, or head alone when desc is empty
WithDesc(text, desc) == IF desc = <<>> THEN text ELSE text \o <<" ", "U+2013", " ">> \o desc

\* groups_map[code] for the group line i: the code with the rest of the line, or
\* with the line below when the rest is empty
GroupText(lines, i) ==
    LET e == DigitRunEnd(lines[i], 1)
        tail == StripChars(SubSeq(lines[i], e + 1, Len(lines[i])), {" ", "-", "U+2013", ":"})
    IN WithDesc(SubSeq(lines[i], 1, e), IF tail # <<>> THEN tail ELSE Lookahead(lines, i))

\* the while loop of fetch_caselaw_hierarchy from line i on: one forward cursor,
\* the line read ahead is not skipped
RECURSIVE ScanLines(_, _, _, _, _)
ScanLines(lines, i, chapter, groups_map, wanted) ==
    IF i > Len(lines) THEN [chapter |-> chapter, groups_map |-> groups_map]
    ELSE IF StartsWithAt(lines[i], 1, ChapterWord) /\ chapter = <<>>
    THEN ScanLines(lines, i + 1, WithDesc(lines[i], Lookahead(lines, i)), groups_map, wanted)
    ELSE IF IsGroupLine(lines[i]) /\ SubSeq(lines[i], 1, DigitRunEnd(lines[i], 1)) \in wanted
    THEN ScanLines(lines, i + 1, chapter,
                   (SubSeq(lines[i], 1, DigitRunEnd(lines[i], 1)) :> GroupText(lines, i)) @@ groups_map,
                   wanted)
    ELSE ScanLines(lines, i + 1, chapter, groups_map, wanted)

\* [ln.strip() for ln in raw_text.splitlines() if ln.strip()]
RECURSIVE StrippedLines(_)
StrippedLines(raw_lines) ==
    IF raw_lines = <<>> THEN <<>>
    ELSE (IF Strip(Head(raw_lines)) # <<>> THEN <<Strip(Head(raw_lines))>> ELSE <<>>)
         \o StrippedLines(Tail(raw_lines))

\* [hs4, hs6, hs8] without the entries that are None
CodePrefixes(digits) ==
    <<FirstN(digits, 4)>>
    \o (IF Len(digits) >= 6 THEN <<FirstN(digits, 6)>> ELSE <<>>)
    \o (IF Len(digits) >= 8 THEN <<FirstN(digits, 8)>> ELSE <<>>)

\* the groups found, the most specific code first
RECURSIVE GroupsInOrder_most_specific_first(_, _)
GroupsInOrder_most_specific_first(codes, groups_map) ==
    IF codes = <<>> THEN <<>>
    ELSE GroupsInOrder_most_specific_first(Tail(codes), groups_map)
         \o (IF Head(codes) \in DOMAIN groups_map THEN <<groups_map[Head(codes)]>> ELSE <<>>)

\* the groups found, in the order 4, 6, 8 digits
RECURSIVE GroupsInOrder(_, _)
GroupsInOrder(codes, groups_map) ==
    IF codes = <<>> THEN <<>>
    ELSE (IF Head(codes) # <<>> /\ Head(codes) \in DOMAIN groups_map
          THEN <<groups_map[Head(codes)]>> ELSE <<>>)
         \o GroupsInOrder(Tail(codes), groups_map)

\* fetch_caselaw_hierarchy from the text of the page on
ParseHierarchy(raw_lines, digits) ==
    Only({[chapter |-> found.chapter, groups |-> GroupsInOrder(CodePrefixes(digits), found.groups_map)] :
          found \in {ScanLines(StrippedLines(raw_lines), 1, <<>>, <<>>,
                               {CodePrefixes(digits)[k] : k \in 1..Len(CodePrefixes(digits))})}})

EmptyHierarchy == [chapter |-> <<>>, groups |-> <<>>]

\* the classes each exception of requests derives from, itself included
ExceptionBases ==
    [ConnectionError |-> {"ConnectionError", "RequestException"},
     ConnectTimeout |-> {"ConnectTimeout", "ConnectionError", "Timeout", "RequestException"},
     ReadTimeout |-> {"ReadTimeout", "Timeout", "RequestException"},
     TooManyRedirects |-> {"TooManyRedirects", "RequestException"},
     HTTPError |-> {"HTTPError", "RequestException"}]

\* a handler that catches only connection errors
HandledClass_connection_only == "ConnectionError"

\* except requests.RequestException
HandledClass == "RequestException"

\* requests.Response.raise_for_status raises HTTPError for a 4xx or 5xx status
RaisedBy(outcome) ==
    IF outcome.kind = "raise" THEN outcome.exc
    ELSE IF outcome.status >= 400 /\ outcome.status < 600 THEN "HTTPError"
    ELSE "none"

\* fetch_caselaw_hierarchy from the outcome of requests.get on: what it returns or raises
fetch_after_call(outcome, digits) ==
    IF RaisedBy(outcome) # "none"
    THEN IF HandledClass \in ExceptionBases[RaisedBy(outcome)]
         THEN [kind |-> "return", value |-> EmptyHierarchy]
         ELSE [kind |-> "raise", value |-> RaisedBy(outcome)]
    ELSE [kind |-> "return", value |-> ParseHierarchy(outcome.lines, digits)]

HttpTimeout == 10

\* index up to the search: the method and the trimmed form field decide
IndexStart ==
    /\ pc = "request"
    /\ IF request.method = "POST"
       THEN /\ user_query' = Strip(request.description)
            /\ pc' = IF Strip(request.description) # <<>> THEN "search" ELSE "render"
       ELSE /\ pc' = "render"
            /\ UNCHANGED user_query
    /\ UNCHANGED <<candidates, ask, llm_log, llm_outcome, result>>
    /\ UNCHANGED <<PureVars, WebVars>>

\* find_candidate_rows scoring the catalog itself (tmp = df in place of df.copy())
Search_scoring_in_place ==
    /\ pc = "search"
    /\ candidates' \in find_candidate_rows(HS_DF, user_query, DefaultTopK)
    /\ HS_DF' = WithDigits(HS_DF)
    /\ stages' = stages \o <<"search.call", "search.return">>
    /\ pc' = "classify"
    /\ UNCHANGED <<user_query, ask, llm_log, llm_outcome, result>>
    /\ UNCHANGED <<PureVars, request, hs_digits, http, caselaw_data, rendered>>

\* candidates = find_candidate_rows(HS_DF, user_query)
Search ==
    /\ pc = "search"
    /\ candidates' \in find_candidate_rows(HS_DF, user_query, DefaultTopK)
    /\ stages' = stages \o <<"search.call", "search.return">>
    /\ pc' = "classify"
    /\ UNCHANGED <<user_query, ask, llm_log, llm_outcome, result>>
    /\ UNCHANGED <<PureVars, WebLocals>>

\* ExtractAndFetch looking the hierarchy up whether or not a code was extracted
ExtractAndFetch_unconditional ==
    /\ pc = "classified"
    /\ hs_digits' = extract_hs_from_result(result)
    /\ http' = [kind |-> "pending", query |-> hs_digits', timeout |-> HttpTimeout]
    /\ stages' = Append(stages, "hierarchy.call")
    /\ pc' = "await_http"
    /\ UNCHANGED <<HS_DF, request, caselaw_data, rendered>>
    /\ UNCHANGED <<PureVars, AskVars>>

\* hs_digits = extract_hs_from_result(result), and the GET of
\* fetch_caselaw_hierarchy when a code was extracted
ExtractAndFetch ==
    /\ pc = "classified"
    /\ hs_digits' = extract_hs_from_result(result)
    /\ IF hs_digits' # <<>>
       THEN /\ http' = [kind |-> "pending", query |-> hs_digits', timeout |-> HttpTimeout]
            /\ stages' = Append(stages, "hierarchy.call")
            /\ pc' = "await_http"
       ELSE /\ pc' = "render"
            /\ UNCHANGED <<http, stages>>
    /\ UNCHANGED <<HS_DF, request, caselaw_data, rendered>>
    /\ UNCHANGED <<PureVars, AskVars>>

\* the pages of the reference site, as the lines of their visible text
Pages ==
    {<<>>,
     <<<<" ", " ", "C", "h", "u+", "o+", "n", "g", " ", "4", "4", " ">>, <<"G", "o^~", " ", "v", "a-", " ", "c", "a'", "c", " ", "m", "a(.", "t", " ", "h", "a-", "n", "g", " ", "b", "a(-", "n", "g", " ", "g", "o^~">>, <<"4", "4", "1", "1">>, <<" ", "V", "a'", "n", " ", "s", "o+.", "i">>, <<" ">>,
       <<"4", "4", "1", "1", "1", "2", " ", "-", " ", "L", "o", "a.", "i", " ", "k", "h", "a'", "c">>, <<"4", "4", "1", "1", "1", "2", "0", "0">>, <<"6", "4", "0", "3", " ", "U+2013", " ", "G", "i", "a-", "y">>, <<"C", "h", "u+", "o+", "n", "g", " ", "6", "4">>>>,
     <<<<"4", "4", "1", "1">>, <<"C", "h", "u+", "o+", "n", "g", " ", "4", "4">>, <<"4", "4", "1", "1", "1", "3">>, <<"4", "4", "1", "1", "1", "3", "0", "0">>, <<"4", "4", "1", "1", "1", "3", "0", "0", ":", " ", "m", "d", "f">>, <<"4", "4", "1", "1", "x">>, <<"6", "4", "0", "3">>>>}

\* what requests.get and raise_for_status can do
HttpOutcomes ==
    {[kind |-> "raise", exc |-> e] : e \in {"ConnectionError", "ConnectTimeout", "ReadTimeout", "TooManyRedirects"}}
    \cup {[kind |-> "response", status |-> s, lines |-> p] : s \in {200, 300, 404, 500}, p \in Pages}

\* fetch_caselaw_hierarchy from the outcome of the GET on, and caselaw_data
FetchReply ==
    /\ pc = "await_http"
    /\ \E outcome \in HttpOutcomes :
          \E r \in {fetch_after_call(outcome, hs_digits)} :
             /\ http' = outcome
             /\ IF r.kind = "return"
                THEN /\ caselaw_data' = r.value
                     /\ stages' = Append(stages, "hierarchy.return")
                     /\ pc' = "render"
                ELSE /\ pc' = "raised"
                     /\ UNCHANGED <<caselaw_data, stages>>
    /\ UNCHANGED <<HS_DF, request, hs_digits, rendered>>
    /\ UNCHANGED <<PureVars, AskVars>>

\* return render_template("index.html", ...)
Render ==
    /\ pc = "render"
    /\ rendered' = [user_query |-> user_query, result |-> result, caselaw_data |-> caselaw_data]
    /\ pc' = "rendered"
    /\ UNCHANGED <<HS_DF, request, hs_digits, http, caselaw_data, stages>>
    /\ UNCHANGED <<PureVars, AskVars>>

Requests ==
    {[method |-> "GET", description |-> <<>>]}
    \cup {[method |-> "POST", description |-> d] :
             d \in {<<>>, <<" ", " ">>, <<" ", "m", "d", "f", " ">>, <<"M", "D", "F", " ", "d", "u+", "o+'", "i", " ", "4", " ", "m", "m">>, <<"g", "i", "a-", "y">>, <<"x", "y", "z">>}}

WebCatalogs ==
    {<<>>,
     <<RowMdf3, RowMdf10, RowShoe>>,
     <<RowWood, RowMdf3, Row(<<"4", "4", "1", "1">>, <<"v", "a'", "n">>, <<"v", "a'", "n", " ", "s", "o+.", "i">>)>>}

InitWeb ==
    /\ pc = "request"
    /\ request \in Requests
    /\ HS_DF \in WebCatalogs
    /\ hs_digits = <<>> /\ http = NoOutcome /\ caselaw_data = <<>> /\ rendered = <<>> /\ stages = <<>>
    /\ AskIdle /\ PureIdle

NextWeb == IndexStart \/ Search \/ AskStart \/ AskReply \/ ExtractAndFetch \/ FetchReply \/ Render

SpecWeb == InitWeb /\ [][NextWeb]_vars

(***************************************************************************)
(* Claims about the web request, checked under SpecWeb.                    *)
(***************************************************************************)
StageOrder ==
    <<"search.call", "search.return", "classify.call", "classify.return",
      "hierarchy.call", "hierarchy.return">>

IsPrefix(s, t) == Len(s) <= Len(t) /\ s = SubSeq(t, 1, Len(s))

HasHsToken(text) == \E i \in 1..Len(text) : MatchHs(text, i) > 0

NothingToClassify == request.method = "GET" \/ Strip(request.description) = <<>>

\* C9: within one request the stages run in the order search, classification,
\* hierarchy lookup, each at most once and each called only after the one before
\* has returned; a GET, or a POST whose trimmed description is empty, calls
\* none; a POST with a description runs search and classification, and the
\* hierarchy lookup exactly when the classification's result holds an
\* HS-code-shaped token; without one the hierarchy stays empty.
C9_StagesInOrder ==
    /\ IsPrefix(stages, StageOrder)
    /\ NothingToClassify => stages = <<>>
    /\ Len(stages) > 4 => HasHsToken(result)
    /\ (pc = "rendered" /\ ~NothingToClassify) =>
          /\ Len(stages) \in {4, 6}
          /\ Len(stages) = 6 <=> HasHsToken(result)
          /\ Len(stages) = 4 => rendered.caselaw_data = <<>>

\* a POST went through search, a remote classification and the hierarchy lookup
C9_Witness_AllStages ==
    /\ pc = "rendered"
    /\ stages = StageOrder
    /\ Len(llm_log) = 1
    /\ rendered.caselaw_data.groups # <<>>

\* the GET failed: requests raised, or the status is one raise_for_status
\* reports as an error (4xx or 5xx)
FetchFailed == http.kind = "raise" \/ (http.kind = "response" /\ http.status \in 400..599)

\* C10: when the GET fails by a network error, a timeout or an error status,
\* fetch_caselaw_hierarchy raises nothing to index and returns exactly the dict
\* of an empty chapter and no groups, whatever the page holds.
C10_FetchFailureIsolated ==
    FetchFailed =>
        /\ pc # "raised"
        /\ caselaw_data = EmptyHierarchy
        /\ stages = StageOrder

\* the GET timed out while reading, and the page was rendered with the empty hierarchy
C10_Witness_ReadTimeout ==
    /\ http.kind = "raise" /\ http.exc = "ReadTimeout"
    /\ pc = "rendered"
    /\ rendered.caselaw_data = EmptyHierarchy

(***************************************************************************)
(* fetch_caselaw_hierarchy called on its own: any page, any digit string.  *)
(***************************************************************************)
PageLineSamples ==
    {<<"C", "h", "u+", "o+", "n", "g", " ", "4", "4">>, <<" ", "C", "h", "u+", "o+", "n", "g", " ", "6", "4", " ">>, <<"V", "a'", "n", " ", "s", "o+.", "i">>, <<" ">>, <<"4", "4", "1", "1">>, <<"4", "4", "1", "1", "1", "3">>,
     <<"4", "4", "1", "1", " ", "U+2013", " ", "V", "a'", "n">>, <<"4", "4", "1", "1", "1", "3", "0", "0", ":", " ", "m", "d", "f">>, <<"6", "4", "0", "3">>, <<"4", "4", "1", "1", "x">>}

MaxPageLines == 3

PageSamples == UNION {[1..n -> PageLineSamples] : n \in 0..MaxPageLines}

FetchDigits == {<<"4", "4", "1", "1">>, <<"4", "4", "1", "1", "1">>, <<"4", "4", "1", "1", "1", "3">>, <<"4", "4", "1", "1", "1", "3", "0", "0">>, <<"4", "4", "1", "1", "1", "3", "0", "0", "9">>, <<"6", "4", "0", "3">>}

InitFetch ==
    /\ pc = "call"
    /\ fn = "fetch_caselaw_hierarchy"
    /\ arg \in [lines : PageSamples, digits : FetchDigits]
    /\ ret = <<>>
    /\ AskIdle /\ WebIdle

\* the GET answers 200 with the page, and the function runs to its return
CallFetch ==
    /\ pc = "call"
    /\ fn = "fetch_caselaw_hierarchy"
    /\ ret' = fetch_after_call([kind |-> "response", status |-> 200, lines |-> arg.lines], arg.digits).value
    /\ pc' = "return"
    /\ UNCHANGED <<fn, arg>>
    /\ UNCHANGED <<AskVars, WebVars>>

NextFetch == CallFetch

SpecFetch == InitFetch /\ [][NextFetch]_vars

\* the code a line leads with: the 4 to 8 digits before a word boundary
LeadsWithCode(ln, code) ==
    /\ Len(code) \in 4..8
    /\ StartsWithAt(ln, 1, code)
    /\ (Len(ln) = Len(code) \/ ~IsWordChar(ln[Len(code) + 1]))

\* a line that is all of 4 to 8 digits
BareCode(ln) == Len(ln) \in 4..8 /\ \A k \in 1..Len(ln) : ln[k] \in Digit

\* the query's first 4, 6 and 8 digits, those it is long enough for
QueryPrefixes(digits) ==
    <<SubSeq(digits, 1, 4)>>
    \o (IF Len(digits) >= 6 THEN <<SubSeq(digits, 1, 6)>> ELSE <<>>)
    \o (IF Len(digits) >= 8 THEN <<SubSeq(digits, 1, 8)>> ELSE <<>>)

\* C11: the groups returned are at most three, each beginning with the query's
\* first 4, 6 or 8 digits, in that order, a prefix being present iff some line of
\* the page leads with exactly that code; the chapter is the first line starting
\* with the chapter marker, joined by an en dash to the line below when that
\* line is neither a chapter line nor a bare code of 4 to 8 digits, and empty
\* when no line starts with the marker.
C11_HierarchyShape ==
    (fn = "fetch_caselaw_hierarchy" /\ pc = "return") =>
        \A ls \in {StrippedLines(arg.lines)} :
           \A seen \in {SelectSeq(QueryPrefixes(arg.digits),
                                  LAMBDA c : \E i \in 1..Len(ls) : LeadsWithCode(ls[i], c))} :
              /\ Len(ret.groups) <= 3
              /\ Len(ret.groups) = Len(seen)
              /\ \A k \in 1..Len(seen) : StartsWithAt(ret.groups[k], 1, seen[k])
              /\ LET marked == {i \in 1..Len(ls) : StartsWithAt(ls[i], 1, ChapterWord)}
                 IN IF marked = {} THEN ret.chapter = <<>>
                    ELSE \A i \in {CHOOSE j \in marked : \A m \in marked : j <= m} :
                            IF i < Len(ls) /\ (i + 1) \notin marked /\ ~BareCode(ls[i + 1])
                            THEN ret.chapter = ls[i] \o <<" ", "U+2013", " ">> \o ls[i + 1]
                            ELSE ret.chapter = ls[i]

\* a page with a chapter line and lines for the 4- and 8-digit prefixes but
\* none for the 6-digit one
C11_Witness_TwoOfThreeGroups ==
    /\ fn = "fetch_caselaw_hierarchy" /\ pc = "return"
    /\ arg.digits = <<"4", "4", "1", "1", "1", "3", "0", "0">>
    /\ Len(ret.groups) = 2
    /\ StartsWithAt(ret.groups[2], 1, <<"4", "4", "1", "1", "1", "3", "0", "0">>)
    /\ ret.chapter # <<>>

(***************************************************************************)
(* hs_loader.py.  A file is its name and what pandas.read_json makes of    *)
(* it: nothing (both attempts raise ValueError) or a frame of columns and  *)
(* rows, a row being the tuple of its cells as astype(str) writes them.    *)
(***************************************************************************)
EndsWith(s, suffix) == Len(s) >= Len(suffix) /\ StartsWithAt(s, Len(s) - Len(suffix) + 1, suffix)

\* cols_lower[k] for the first key k of cols_lower among those at the indices
\* keys, 0 when there is none: the key is the lowercase of a column, its value
\* the last column of that lowercase
ColumnFor(columns, keys) ==
    IF keys = {} THEN 0
    ELSE LET first == CHOOSE i \in keys : \A j \in keys : i <= j
         IN CHOOSE i \in 1..Len(columns) :
               /\ Lower(columns[i]) = Lower(columns[first])
               /\ \A j \in 1..Len(columns) : Lower(columns[j]) = Lower(columns[first]) => j <= i

IsHsKey(k) == Contains(k, <<"h", "s", "_", "c", "o", "d", "e">>) \/ Contains(k, <<"h", "s", " ", "c", "o", "d", "e">>)

IsNameKey(k) == Contains(k, <<"t", "e", "n", "_", "h", "a", "n", "g">>) \/ Contains(k, <<"t", "e^", "n", " ", "h", "a-", "n", "g">>) \/ Contains(k, <<"t", "e", "n", " ", "h", "a", "n", "g">>)

hs_col(columns) == ColumnFor(columns, {i \in 1..Len(columns) : IsHsKey(Lower(columns[i]))})

name_col(columns) == ColumnFor(columns, {i \in 1..Len(columns) : IsNameKey(Lower(columns[i]))})

text_col(columns) == ColumnFor(columns, {i \in 1..Len(columns) : Lower(columns[i]) = <<"t", "e", "x", "t">>})

\* the columns folded into the description: ghi, note, item, remark, but no hs
IsNoteColumn(c) ==
    /\ ~Contains(Lower(c), <<"h", "s">>)
    /\ \E k \in {<<"g", "h", "i">>, <<"n", "o", "t", "e">>, <<"i", "t", "e", "m">>, <<"r", "e", "m", "a", "r", "k">>} : Contains(Lower(c), k)

\* desc_series + f" | {c}: " + cell, over the note columns from column i on
RECURSIVE NoteText(_, _, _)
NoteText(columns, cells, i) ==
    IF i > Len(columns) THEN <<>>
    ELSE (IF IsNoteColumn(columns[i])
          THEN <<" ", "|", " ">> \o columns[i] \o <<":", " ">> \o Strip(cells[i])
          ELSE <<>>)
         \o NoteText(columns, cells, i + 1)

\* one row of result before the empty rows are dropped
GoodsRow(fname, columns, cells, hs, name, text) ==
    LET ten_hang == IF name # 0 THEN Strip(cells[name]) ELSE <<>>
    IN [hs_code |-> Strip(cells[hs]),
        description |-> Strip(IF text # 0 THEN Strip(cells[text])
                              ELSE ten_hang \o NoteText(columns, cells, 1)),
        ten_hang |-> ten_hang,
        source_file |-> fname]

IsRetained(row) == Strip(row.hs_code) # <<>> /\ Strip(row.description) # <<>>

\* _load_json_goods keeping every row, the empty ones too
LoadedRows_keeping_empty(rows) == rows

\* result[(hs_code != "") & (description != "")]
LoadedRows(rows) == SelectSeq(rows, IsRetained)

\* _load_json_goods: the rows it returns, or the exception it raises
_load_json_goods(file) ==
    IF file.content.kind # "frame" THEN [kind |-> "raise", exc |-> "ValueError"]
    ELSE LET columns == file.content.columns
         IN IF hs_col(columns) = 0 THEN [kind |-> "raise", exc |-> "ValueError"]
            ELSE [kind |-> "return",
                  rows |-> LoadedRows([r \in 1..Len(file.content.rows) |->
                              GoodsRow(file.name, columns, file.content.rows[r], hs_col(columns),
                                       name_col(columns), text_col(columns))])]

\* all_rows after the loop over the files from file i on: one frame for each
\* .json file that loaded
RECURSIVE LoadedParts(_, _)
LoadedParts(files, i) ==
    IF i > Len(files) THEN <<>>
    ELSE (IF EndsWith(Lower(files[i].name), <<".", "j", "s", "o", "n">>) /\ _load_json_goods(files[i]).kind = "return"
          THEN <<_load_json_goods(files[i]).rows>>
          ELSE <<>>)
         \o LoadedParts(files, i + 1)

\* pd.concat(all_rows, ignore_index=True)
RECURSIVE Concat(_)
Concat(parts) == IF parts = <<>> THEN <<>> ELSE Head(parts) \o Concat(Tail(parts))

\* the columns of full_df stripped once more
Restripped(row) ==
    [row EXCEPT !.hs_code = Strip(@), !.description = Strip(@), !.ten_hang = Strip(@)]

\* load_hs_excels: the table it returns, or the exception it raises; os.listdir
\* raises for a directory that is missing
load_hs_excels(data_dir) ==
    IF data_dir.kind = "missing" THEN [kind |-> "raise", exc |-> "FileNotFoundError"]
    ELSE Only({IF all_rows = <<>> THEN [kind |-> "raise", exc |-> "ValueError"]
               ELSE [kind |-> "return",
                     rows |-> [r \in 1..Len(Concat(all_rows)) |-> Restripped(Concat(all_rows)[r])]] :
               all_rows \in {LoadedParts(data_dir.files, 1)}})

FrameSamples ==
    {[kind |-> "unreadable"],
     [kind |-> "frame", columns |-> <<>>, rows |-> <<>>],
     [kind |-> "frame", columns |-> <<<<"t", "e", "n", "_", "h", "a", "n", "g">>>>, rows |-> <<<<<<"m", "d", "f">>>>>>],
     [kind |-> "frame", columns |-> <<<<"H", "S", "_", "C", "o", "d", "e">>, <<"t", "e", "n", "_", "h", "a", "n", "g">>, <<"g", "h", "i", "_", "c", "h", "u", "_", "1">>>>,
      rows |-> <<<<<<"4", "4", "1", "1">>, <<" ", "m", "d", "f", " ">>, <<"3", " ", "m", "m">>>>, <<<<" ">>, <<"m", "d", "f">>, <<"n", "a", "n">>>>>>],
     [kind |-> "frame", columns |-> <<<<"h", "s", "_", "c", "o", "d", "e">>, <<"t", "e", "x", "t">>, <<"T", "e", "n", "_", "H", "a", "n", "g">>>>,
      rows |-> <<<<<<"6", "4", "0", "3">>, <<"g", "i", "a-", "y">>, <<>>>>>>],
     [kind |-> "frame", columns |-> <<<<"h", "s", "_", "c", "o", "d", "e">>, <<"t", "e", "x", "t">>>>,
      rows |-> <<<<<<"4", "4", "1", "1">>, <<" ">>>>, <<<<>>, <<"m", "d", "f">>>>>>]}

FileNames == {<<"a", ".", "j", "s", "o", "n">>, <<"b", ".", "J", "S", "O", "N">>, <<"c", ".", "t", "x", "t">>}

MaxFiles == 2

\* the listings of a directory: files of distinct names, in any order
DirectorySamples ==
    {[kind |-> "missing"]}
    \cup {[kind |-> "listing", files |-> fs] :
             fs \in {f \in SeqsUpTo([name : FileNames, content : FrameSamples], MaxFiles) :
                        \A i, j \in 1..Len(f) : f[i].name = f[j].name => i = j}}

InitLoad ==
    /\ pc = "call"
    /\ fn = "load_hs_excels"
    /\ arg \in DirectorySamples
    /\ ret = <<>>
    /\ AskIdle /\ WebIdle

CallLoad ==
    /\ pc = "call"
    /\ fn = "load_hs_excels"
    /\ ret' = load_hs_excels(arg)
    /\ pc' = "return"
    /\ UNCHANGED <<fn, arg>>
    /\ UNCHANGED <<AskVars, WebVars>>

NextLoad == CallLoad

SpecLoad == InitLoad /\ [][NextLoad]_vars

\* a file load_hs_excels reads and that loads: a .json name, a frame, a code column
WellFormed(file) ==
    /\ EndsWith(Lower(file.name), <<".", "j", "s", "o", "n">>)
    /\ file.content.kind = "frame"
    /\ \E c \in 1..Len(file.content.columns) : IsHsKey(Lower(file.content.columns[c]))

RowsFrom(rows, fname) == SelectSeq(rows, LAMBDA r : r.source_file = fname)

\* the rows of a frame that hold a code and a description, built as GoodsRow
\* builds them
ExpectedRows(file) ==
    SelectSeq([r \in 1..Len(file.content.rows) |->
                  GoodsRow(file.name, file.content.columns, file.content.rows[r],
                           hs_col(file.content.columns), name_col(file.content.columns),
                           text_col(file.content.columns))],
              LAMBDA row : row.hs_code # <<>> /\ row.description # <<>>)

\* C12: a malformed file does not make load_hs_excels raise and contributes no
\* row: when the directory holds a well-formed file the call returns, every row
\* returned comes from a well-formed file, and the rows of each well-formed file
\* are exactly its rows of non-empty code and description, in the file's order.
C12_MalformedFilesSkipped ==
    (fn = "load_hs_excels" /\ pc = "return" /\ arg.kind = "listing") =>
        \A good \in {{i \in 1..Len(arg.files) : WellFormed(arg.files[i])}} :
           good # {} =>
              /\ ret.kind = "return"
              /\ \A r \in 1..Len(ret.rows) :
                    \E i \in good : ret.rows[r].source_file = arg.files[i].name
              /\ \A i \in good :
                    RowsFrom(ret.rows, arg.files[i].name) = ExpectedRows(arg.files[i])
              /\ \A i, j \in good :
                    \A a, b \in 1..Len(ret.rows) :
                       (i < j /\ ret.rows[a].source_file = arg.files[i].name
                              /\ ret.rows[b].source_file = arg.files[j].name) => a < b

\* a well-formed file and an unreadable one: the rows of the first are returned
C12_Witness_OneGoodOneBad ==
    /\ fn = "load_hs_excels" /\ pc = "return" /\ arg.kind = "listing"
    /\ Len(arg.files) = 2
    /\ \E i \in 1..2 : EndsWith(Lower(arg.files[i].name), <<".", "j", "s", "o", "n">>) /\ ~WellFormed(arg.files[i])
    /\ ret.kind = "return" /\ Len(ret.rows) = 1

\* C13: load_hs_excels never returns an empty catalog: it raises, or returns at
\* least one row, every row with a non-empty code and description.
C13_NeverEmptyCatalog ==
    (fn = "load_hs_excels" /\ pc = "return") =>
        \/ ret.kind = "raise"
        \/ /\ Len(ret.rows) >= 1
           /\ \A r \in 1..Len(ret.rows) : ret.rows[r].hs_code # <<>> /\ ret.rows[r].description # <<>>

(***************************************************************************)
(* convert_excel_json/hs_ollama_finder.py: the local finder.  A record of  *)
(* the database is a function on the keys it has.  The session reuses the  *)
(* variables of the classification client: user_query is the line read,    *)
(* candidates the shortlist, llm_log the prompts sent, llm_outcome what    *)
(* Ollama did, result what ask_hs_code returned, arg the database.         *)
(***************************************************************************)
\* rec.get(key, "")
Get(rec, key) == IF key \in DOMAIN rec THEN rec[key] ELSE <<>>

\* normalize_text(s).split(): lowercase, every character outside
\* digits, letters and whitespace made a space, then the words between spaces
NormWords(s) == ToSet(FindWords(ReplaceChar(Lower(s), "_", " "), 1))

\* score_record: the words the query shares with the record's name and notes
score_record(query_words, rec) ==
    Cardinality(query_words \cap (NormWords(Get(rec, "ten_hang")) \cup NormWords(Get(rec, "ghi_chu_1"))
                                   \cup NormWords(Get(rec, "ghi_chu_2"))))

TOP_K_CANDIDATES == 30

\* select_candidates: the records by score, descending and stable; those of a
\* positive score when there is one
select_candidates(query, db, top_k) ==
    Only({IF scored # <<>> /\ scored[1][1] = 0 THEN FirstN(RowsOf(scored), top_k)
          ELSE IF SelectSeq(scored, IsPositive) = <<>> THEN FirstN(RowsOf(scored), top_k)
          ELSE FirstN(RowsOf(SelectSeq(scored, IsPositive)), top_k) :
          scored \in {SortByScoreDesc([i \in 1..Len(db) |-> <<score_record(NormWords(query), db[i]), db[i]>>])}})

\* a Python value json.loads can return: its type, and its number or its text
Py(type, num, text) == [type |-> type, num |-> num, text |-> text]

PyInt(n) == Py("int", n, <<>>)

PyStr(s) == Py("str", 0, s)

\* json.loads on the reply texts of the model: the dict, or the value of another
\* type, or the error
ReplyTable ==
    {[text |-> <<"x", "i", "n", " ", "c", "h", "a-", "o">>, error |-> TRUE, value |-> Py("none", 0, <<>>), items |-> <<>>],
     [text |-> <<>>, error |-> TRUE, value |-> Py("none", 0, <<>>), items |-> <<>>],
     [text |-> <<"[", "1", "]">>, error |-> FALSE, value |-> Py("list", 0, <<>>), items |-> <<>>],
     [text |-> <<"1">>, error |-> FALSE, value |-> PyInt(1), items |-> <<>>],
     [text |-> <<"n", "u", "l", "l">>, error |-> FALSE, value |-> Py("NoneType", 0, <<>>), items |-> <<>>],
     [text |-> <<"\"", "1", "\"">>, error |-> FALSE, value |-> PyStr(<<"1">>), items |-> <<>>],
     [text |-> <<"{", "}">>, error |-> FALSE, value |-> Py("dict", 0, <<>>), items |-> <<>>],
     [text |-> <<"{", "\"", "i", "n", "d", "e", "x", "_", "i", "n", "_", "l", "i", "s", "t", "\"", ":", " ", "\"", "1", "\"", "}">>, error |-> FALSE, value |-> Py("dict", 0, <<>>),
      items |-> [index_in_list |-> PyStr(<<"1">>)]],
     [text |-> <<"{", "\"", "i", "n", "d", "e", "x", "_", "i", "n", "_", "l", "i", "s", "t", "\"", ":", " ", "1", ".", "0", "}">>, error |-> FALSE, value |-> Py("dict", 0, <<>>),
      items |-> [index_in_list |-> Py("float", 1, <<>>)]],
     [text |-> <<"{", "\"", "i", "n", "d", "e", "x", "_", "i", "n", "_", "l", "i", "s", "t", "\"", ":", " ", "n", "u", "l", "l", "}">>, error |-> FALSE, value |-> Py("dict", 0, <<>>),
      items |-> [index_in_list |-> Py("NoneType", 0, <<>>)]],
     [text |-> <<"{", "\"", "i", "n", "d", "e", "x", "_", "i", "n", "_", "l", "i", "s", "t", "\"", ":", " ", "t", "r", "u", "e", "}">>, error |-> FALSE, value |-> Py("dict", 0, <<>>),
      items |-> [index_in_list |-> Py("bool", 1, <<>>)]],
     [text |-> <<"{", "\"", "i", "n", "d", "e", "x", "_", "i", "n", "_", "l", "i", "s", "t", "\"", ":", " ", "2", ",", " ", "\"", "h", "s", "_", "c", "o", "d", "e", "\"", ":", " ", "\"", "9", "9", "9", "9", "\"", ",", " ", "\"", "e", "x", "p", "l", "a", "n", "a", "t", "i", "o", "n", "_", "v", "i", "\"", ":", " ", "\"", "m", "d", "f", "\"", "}">>,
      error |-> FALSE, value |-> Py("dict", 0, <<>>),
      items |-> [index_in_list |-> PyInt(2), hs_code |-> PyStr(<<"9", "9", "9", "9">>), explanation_vi |-> PyStr(<<"m", "d", "f">>)]]}
    \cup {[text |-> <<"{", "\"", "i", "n", "d", "e", "x", "_", "i", "n", "_", "l", "i", "s", "t", "\"", ":", " ">> \o IntToStr(n) \o <<"}">>, error |-> FALSE,
           value |-> Py("dict", 0, <<>>), items |-> [index_in_list |-> PyInt(n)]] : n \in {0, 1, 3, 4, 31}}
    \cup {[text |-> <<"{", "\"", "i", "n", "d", "e", "x", "_", "i", "n", "_", "l", "i", "s", "t", "\"", ":", " ", "-", "1", "}">>, error |-> FALSE,
           value |-> Py("dict", 0, <<>>), items |-> [index_in_list |-> PyInt(-1)]]}

json_loads(text) == CHOOSE e \in ReplyTable : e.text = text

NoResult == [kind |-> "None"]

\* parsed.get(key, "") of a dict
GetItem(items, key) == IF key \in DOMAIN items THEN items[key] ELSE PyStr(<<>>)

\* the code of the result taken from the reply when the reply names one
ChosenCode_from_reply(items, chosen) ==
    IF "hs_code" \in DOMAIN items THEN items.hs_code.text ELSE Get(chosen, "hs_code")

\* chosen.get("hs_code", ""): the reply's own fields are not read
ChosenCode(items, chosen) == Get(chosen, "hs_code")

\* 1 <= idx <= len(candidates); True counts as 1 and False as 0
IndexInRange(idx, cands) == 1 <= idx.num /\ idx.num <= Len(cands)

\* ask_hs_code from the text call_ollama returned on: what it returns or raises
finder_after_reply(raw_answer, cands) ==
    Only({IF parsed.error THEN [kind |-> "return", value |-> NoResult]
          ELSE IF parsed.value.type # "dict" THEN [kind |-> "raise", exc |-> "AttributeError"]
          ELSE IF "index_in_list" \notin DOMAIN parsed.items
                  \/ parsed.items.index_in_list.type \notin {"int", "bool"}
               THEN [kind |-> "return", value |-> NoResult]
          ELSE IF ~IndexInRange(parsed.items.index_in_list, cands)
               THEN [kind |-> "return", value |-> NoResult]
          ELSE [kind |-> "return",
                value |-> [kind |-> "dict",
                           hs_code |-> ChosenCode(parsed.items, cands[parsed.items.index_in_list.num]),
                           ten_hang_trong_db |-> Get(cands[parsed.items.index_in_list.num], "ten_hang"),
                           ghi_chu_1 |-> Get(cands[parsed.items.index_in_list.num], "ghi_chu_1"),
                           ghi_chu_2 |-> Get(cands[parsed.items.index_in_list.num], "ghi_chu_2"),
                           index_in_list |-> parsed.items.index_in_list,
                           explanation_vi |-> GetItem(parsed.items, "explanation_vi"),
                           explanation_en |-> GetItem(parsed.items, "explanation_en")]] :
          parsed \in {json_loads(raw_answer)}})

\* call_ollama and the rest of ask_hs_code: a connection error and an HTTP error
\* status are raised again, a reply is parsed
finder_after_call(outcome, cands) ==
    IF outcome.kind = "raise" THEN [kind |-> "raise", exc |-> outcome.exc]
    ELSE IF ~outcome.ok THEN [kind |-> "raise", exc |-> "HTTPError"]
    ELSE finder_after_reply(Strip(outcome.response), cands)

ExitWords == {<<"e", "x", "i", "t">>, <<"q", "u", "i", "t">>, <<"q">>}

MaxPrompts == 2

InputLines == {<<>>, <<" ", " ">>, <<" ", "m", "d", "f", " ", "3">>, <<"g", "i", "a-", "y">>, <<"x", "y", "z">>, <<"Q", "u", "i", "t">>}

\* main up to call_ollama's request: a line is read; an empty one is skipped,
\* an exit word ends the session, any other is shortlisted and sent
FinderInput ==
    /\ pc = "input"
    /\ Len(llm_log) < MaxPrompts
    /\ \E line \in InputLines :
          /\ user_query' = Strip(line)
          /\ IF Strip(line) = <<>>
             THEN /\ pc' = "input"
                  /\ UNCHANGED <<candidates, llm_log, llm_outcome, result>>
             ELSE IF Lower(Strip(line)) \in ExitWords
             THEN /\ pc' = "exited"
                  /\ UNCHANGED <<candidates, llm_log, llm_outcome, result>>
             ELSE \E cands \in {select_candidates(Strip(line), arg, TOP_K_CANDIDATES)} :
                     /\ candidates' = cands
                     /\ llm_outcome' = NoOutcome
                     /\ IF cands = <<>>
                        THEN /\ result' = NoResult
                             /\ pc' = "input"
                             /\ UNCHANGED llm_log
                        ELSE /\ llm_log' = Append(llm_log, [query |-> Strip(line), listed |-> Len(cands)])
                             /\ pc' = "await_ollama"
                             /\ UNCHANGED result
    /\ UNCHANGED <<fn, arg, ret, ask>>
    /\ UNCHANGED WebVars

OllamaOutcomes ==
    {[kind |-> "raise", exc |-> "ConnectionError"],
     [kind |-> "response", ok |-> FALSE, response |-> <<>>]}
    \cup {[kind |-> "response", ok |-> TRUE, response |-> e.text] : e \in ReplyTable}
    \cup {[kind |-> "response", ok |-> TRUE, response |-> <<" ", "{", "\"", "i", "n", "d", "e", "x", "_", "i", "n", "_", "l", "i", "s", "t", "\"", ":", " ", "1", "}", "\n">>]}

\* main from call_ollama's answer on: the result is printed and the next line
\* awaited, or the exception leaves main
FinderReply ==
    /\ pc = "await_ollama"
    /\ \E outcome \in OllamaOutcomes :
          \E r \in {finder_after_call(outcome, candidates)} :
             /\ llm_outcome' = outcome
             /\ IF r.kind = "return"
                THEN result' = r.value /\ pc' = "input"
                ELSE pc' = "crashed" /\ UNCHANGED result
    /\ UNCHANGED <<user_query, candidates, llm_log>>
    /\ UNCHANGED <<fn, arg, ret, ask>>
    /\ UNCHANGED WebVars

FinderRecord(hs, name, note) == [hs_code |-> hs, ten_hang |-> name, ghi_chu_1 |-> note]

DbSamples ==
    {<<>>,
     <<FinderRecord(<<"4", "4", "1", "1", "1", "2", "0", "0">>, <<"V", "a'", "n", " ", "M", "D", "F">>, <<"3", " ", "m", "m">>)>>,
     <<FinderRecord(<<"6", "4", "0", "3", "9", "9", "0", "0">>, <<"g", "i", "a-", "y">>, <<>>), FinderRecord(<<"4", "4", "1", "1", "1", "2", "0", "0">>, <<"V", "a'", "n", " ", "M", "D", "F">>, <<"3", " ", "m", "m">>),
       [hs_code |-> <<"4", "4", "1", "1", "1", "4", "0", "0">>, ten_hang |-> <<"m", "d", "f", "_", "3">>]>>,
     <<FinderRecord(<<"6", "4", "0", "3", "9", "9", "0", "0">>, <<"g", "i", "a-", "y">>, <<>>), [ten_hang |-> <<"m", "d", "f">>, ghi_chu_2 |-> <<"M", "D", "F", ",", " ", "3">>]>>}

\* main after load_hs_data returned the list
InitFinder ==
    /\ pc = "input"
    /\ fn = "main"
    /\ arg \in DbSamples
    /\ ret = <<>>
    /\ AskIdle /\ WebIdle

NextFinder == FinderInput \/ FinderReply

SpecFinder == InitFinder /\ [][NextFinder]_vars

\* Ollama answered the last prompt with a reply text
Replied == llm_outcome.kind = "response" /\ llm_outcome.ok

\* C14: a reply whose index_in_list is an integer outside 1..len(shortlist) is
\* rejected, and a result returned carries the code, name and notes of the
\* shortlisted record at position index_in_list, a record of the database,
\* whatever code the reply itself names.
C14_IndexEnforced ==
    (Replied /\ pc # "crashed") =>
        \A parsed \in {json_loads(Strip(llm_outcome.response))} :
           /\ (/\ ~parsed.error
               /\ "index_in_list" \in DOMAIN parsed.items
               /\ parsed.items.index_in_list.type = "int"
               /\ (parsed.items.index_in_list.num < 1 \/ parsed.items.index_in_list.num > Len(candidates)))
              => result = NoResult
           /\ result # NoResult =>
                 /\ result.index_in_list.num \in 1..Len(candidates)
                 /\ result.index_in_list = parsed.items.index_in_list
                 /\ \E i \in 1..Len(arg) :
                       /\ arg[i] = candidates[result.index_in_list.num]
                       /\ result.hs_code = Get(arg[i], "hs_code")
                       /\ result.ten_hang_trong_db = Get(arg[i], "ten_hang")
                       /\ result.ghi_chu_1 = Get(arg[i], "ghi_chu_1")
                       /\ result.ghi_chu_2 = Get(arg[i], "ghi_chu_2")

\* the reply chose entry 2 and named the code 9999: the result has the code of
\* the second shortlisted record
C14_Witness_CodeFromShortlist ==
    /\ Replied /\ pc = "input"
    /\ "hs_code" \in DOMAIN json_loads(Strip(llm_outcome.response)).items
    /\ result # NoResult
    /\ result.hs_code = Get(candidates[2], "hs_code")
    /\ result.hs_code # <<"9", "9", "9", "9">>

\* C15: whatever text the model replies with, ask_hs_code raises nothing and the
\* loop goes on to the next input; a reply that selects no entry of the
\* shortlist gives no result.
C15_ReplyNeverCrashes ==
    Replied =>
        /\ pc # "crashed"
        /\ \A parsed \in {json_loads(Strip(llm_outcome.response))} :
              (\/ parsed.error
               \/ parsed.value.type # "dict"
               \/ "index_in_list" \notin DOMAIN parsed.items) => result = NoResult

(***************************************************************************)
(* Two requests served by one process.  The variables hold the locals of   *)
(* the request whose thread is running; arg holds those of the request     *)
(* whose thread is suspended.  HS_DF is the one module-level catalog.      *)
(***************************************************************************)
\* the locals of the running request
Frame ==
    [pc |-> pc, user_query |-> user_query, candidates |-> candidates, ask |-> ask,
     llm_log |-> llm_log, llm_outcome |-> llm_outcome, result |-> result, request |-> request,
     hs_digits |-> hs_digits, http |-> http, caselaw_data |-> caselaw_data,
     rendered |-> rendered, stages |-> stages]

\* the scheduler suspends the running thread and resumes the other
SwitchThread ==
    /\ arg.pc \notin {"rendered", "raised"}
    /\ arg' = Frame
    /\ pc' = arg.pc /\ user_query' = arg.user_query /\ candidates' = arg.candidates
    /\ ask' = arg.ask /\ llm_log' = arg.llm_log /\ llm_outcome' = arg.llm_outcome
    /\ result' = arg.result /\ request' = arg.request /\ hs_digits' = arg.hs_digits
    /\ http' = arg.http /\ caselaw_data' = arg.caselaw_data /\ rendered' = arg.rendered
    /\ stages' = arg.stages
    /\ UNCHANGED <<fn, ret, HS_DF>>

ServerRequests ==
    {[method |-> "GET", description |-> <<>>],
     [method |-> "POST", description |-> <<"M", "D", "F", " ", "d", "u+", "o+'", "i", " ", "4", " ", "m", "m">>],
     [method |-> "POST", description |-> <<" ", "m", "d", "f", " ">>]}

InitServer ==
    /\ pc = "request"
    /\ request \in ServerRequests
    /\ HS_DF \in WebCatalogs
    /\ hs_digits = <<>> /\ http = NoOutcome /\ caselaw_data = <<>> /\ rendered = <<>> /\ stages = <<>>
    /\ AskIdle
    /\ fn = "index" /\ ret = <<>>
    /\ \E other \in ServerRequests :
          arg = [pc |-> "request", user_query |-> <<>>, candidates |-> <<>>, ask |-> NoLocals,
                 llm_log |-> <<>>, llm_outcome |-> NoOutcome, result |-> <<>>, request |-> other,
                 hs_digits |-> <<>>, http |-> NoOutcome, caselaw_data |-> <<>>,
                 rendered |-> <<>>, stages |-> <<>>]

NextServer ==
    \/ IndexStart \/ Search \/ AskStart \/ AskReply \/ ExtractAndFetch \/ FetchReply \/ Render
    \/ SwitchThread

SpecServer == InitServer /\ [][NextServer]_vars

\* C16: no step of any request, in any interleaving, changes the catalog: its
\* rows and their fields stay as loaded.
C16_CatalogNeverChanges == [][HS_DF' = HS_DF]_vars

\* both requests searched the catalog and were rendered, the second one
\* starting while the first awaited the model
C16_Witness_TwoRequestsInterleaved ==
    /\ pc = "rendered" /\ arg.pc = "rendered"
    /\ Len(stages) >= 4 /\ Len(arg.stages) >= 4
    /\ Len(llm_log) = 1 /\ Len(arg.llm_log) = 1
    /\ HS_DF # <<>>

(***************************************************************************)
(* A query scored against one candidate: parse_specs_from_query, then      *)
(* candidate_matches_specs on what it returned.                            *)
(***************************************************************************)
RangeQueries ==
    {<<"m", "d", "f", " ", "3", "-", "5", " ", "m", "m">>, <<"v", "a'", "n", " ", "4", " ", "-", " ", "1", "0", "m", "m">>, <<"3", "-", "1", "0", " ", "m", "m">>, <<"m", "d", "f", " ", "2", "-", "3", "m", "m">>, <<"m", "d", "f", " ", "d", "a-", "y", " ", "3", "-", "5", " ", "m", "m">>,
     <<"1", "0", "-", "2", "0", " ", "m", "m">>, <<"1", ".", "5", "-", "4", " ", "m", "m">>, <<"m", "d", "f", " ", "3", " ", "m", "m">>, <<"m", "d", "f", " ", "d", "u+", "o+'", "i", " ", "4", " ", "m", "m">>}

InitScore ==
    /\ pc = "call"
    /\ fn = "parse_specs_from_query"
    /\ arg \in [query : RangeQueries, row : MatchRows]
    /\ ret = <<>>
    /\ AskIdle /\ WebIdle

\* specs = parse_specs_from_query(query)
ParseQuery ==
    /\ pc = "call" /\ fn = "parse_specs_from_query"
    /\ ret' = [specs |-> parse_specs_from_query(arg.query)]
    /\ fn' = "candidate_matches_specs"
    /\ UNCHANGED <<pc, arg>>
    /\ UNCHANGED <<AskVars, WebVars>>

\* candidate_matches_specs(row, specs)
ScoreCandidate ==
    /\ pc = "call" /\ fn = "candidate_matches_specs"
    /\ ret' = [specs |-> ret.specs, scored |-> candidate_matches_specs(arg.row, ret.specs)]
    /\ pc' = "return"
    /\ UNCHANGED <<fn, arg>>
    /\ UNCHANGED <<AskVars, WebVars>>

NextScore == ParseQuery \/ ScoreCandidate

SpecScore == InitScore /\ [][NextScore]_vars

\* a constraint satisfied by some number of nums, the comparator a range emits
\* for its upper bound read as at-most
SatisfiesAsAtMost(c, nums) ==
    \E k \in 1..Len(nums) :
        \/ c[1] \in {"<=", "<= ", PyNone} /\ nums[k] <= c[2]
        \/ c[1] = ">=" /\ nums[k] >= c[2]
        \/ c[1] = "==" /\ Abs(nums[k] - c[2]) * 1000000 < Scale

\* C17: the upper bound B of a range "A-B mm" is applied as an at-most
\* constraint: a candidate with an mm-number <= B gets +20 for it, like for
\* every other satisfied constraint of the query.
C17_RangeUpperBoundAtMost ==
    (fn = "candidate_matches_specs" /\ pc = "return") =>
        \A nums \in {extract_numbers_from_text(RowDesc(arg.row))},
           th \in {ret.specs.thickness},
           base \in {candidate_matches_specs(arg.row, [ret.specs EXCEPT !.thickness = <<>>])} :
            nums # <<>> =>
                ret.scored.score = base.score + 20 * Cardinality({k \in 1..Len(th) : SatisfiesAsAtMost(th[k], nums)})

\* line i of the page was read ahead as the description of line i - 1: of the
\* chapter line that set the chapter, or of a kept group line with nothing
\* behind its code
ReadAhead(ls, i, wanted) ==
    /\ i \in 2..Len(ls)
    /\ Lookahead(ls, i - 1) = ls[i]
    /\ \/ /\ StartsWithAt(ls[i - 1], 1, ChapterWord)
          /\ \A j \in 1..(i - 2) : ~StartsWithAt(ls[j], 1, ChapterWord)
       \/ /\ IsGroupLine(ls[i - 1])
          /\ SubSeq(ls[i - 1], 1, DigitRunEnd(ls[i - 1], 1)) \in wanted
          /\ StripChars(SubSeq(ls[i - 1], DigitRunEnd(ls[i - 1], 1) + 1, Len(ls[i - 1])),
                        {" ", "-", "U+2013", ":"}) = <<>>

\* line i sets the chapter or records a group when the scan examines it
ProducesEntry(ls, i, wanted) ==
    \/ /\ StartsWithAt(ls[i], 1, ChapterWord)
       /\ \A j \in 1..(i - 1) : ~StartsWithAt(ls[j], 1, ChapterWord)
    \/ /\ IsGroupLine(ls[i])
       /\ SubSeq(ls[i], 1, DigitRunEnd(ls[i], 1)) \in wanted

\* C18: a line read ahead as a description is examined again by the next
\* iteration, and never itself sets the chapter or records a group.
C18_ReadAheadLineInert ==
    (fn = "fetch_caselaw_hierarchy" /\ pc = "return") =>
        \A ls \in {StrippedLines(arg.lines)} :
           \A i \in 1..Len(ls) :
              ReadAhead(ls, i, ToSet(CodePrefixes(arg.digits))) =>
                 ~ProducesEntry(ls, i, ToSet(CodePrefixes(arg.digits)))

\* the ParsedSpec of a query with no material, keyword or thickness
EmptySpecs == [material |-> <<>>, thickness |-> <<>>, keywords |-> <<>>]

HasMmNumber(row) == extract_numbers_from_text(RowDesc(row)) # <<>>

\* C19 as stated: with an empty ParsedSpec filter_candidates_by_specs returns
\* the candidate list unchanged, whatever the candidates' texts contain.
C19_EmptySpecReturnsInput ==
    (fn = "filter_candidates_by_specs" /\ pc = "return" /\ arg[2] = EmptySpecs) => ret = arg[1]

\* C19, amended: with an empty ParsedSpec the list is returned unchanged only
\* when no candidate text holds a "<number> mm"; otherwise the candidates that
\* hold one are returned, in their order, at most FilterCap of them.
C19_EmptySpecKeepsSizedRows ==
    (fn = "filter_candidates_by_specs" /\ pc = "return" /\ arg[2] = EmptySpecs) =>
        \A sized \in {SelectSeq(arg[1], HasMmNumber)} :
           IF sized = <<>> THEN ret = arg[1] ELSE ret = FirstN(sized, FilterCap)

\* an empty ParsedSpec, candidates with and without an mm-number: the ones
\* without were dropped
C19_Witness_UnsizedRowsDropped ==
    /\ fn = "filter_candidates_by_specs" /\ pc = "return" /\ arg[2] = EmptySpecs
    /\ \E i \in 1..Len(arg[1]) : ~HasMmNumber(arg[1][i])
    /\ ret # <<>>
    /\ \A i \in 1..Len(ret) : HasMmNumber(ret[i])

(***************************************************************************)
(* The answer of ask_model_for_hs for a chosen record, handed to           *)
(* extract_hs_from_result as index does (model_client.py:410-425, then     *)
(* app.py:125).                                                            *)
(***************************************************************************)
StoredCodes == {<<"4", "4", "1", "1", "1", "2", "0", "0">>, <<"4", "4", "1", "1", ".", "1", "3", ".", "0", "0">>, <<"4", "4", "1", "1", "1", "4">>, <<"4", "4", "1", "1">>, <<"4", "4", ".", "1", "2">>, <<"4", "4", "1", "1", ".", "1", "2", ".", "0", "0", ".", "1", "0">>, <<"4", "4", "1", "1", "1", "2", "0", "0", "1">>}

StoredNames == {<<>>, <<"M", "D", "F">>, <<"V", "a'", "n", " ", "2", "0", "2", "4">>}

MaxChosenCands == 2

ChosenRows == {Row(hs, name, <<"m", "d", "f">>) : hs \in StoredCodes, name \in StoredNames}

InitRoundTrip ==
    /\ pc = "call"
    /\ fn = "ask_model_for_hs"
    /\ \E n \in 1..MaxChosenCands :
          arg \in [candidates : [1..n -> ChosenRows], chosen : 1..n]
    /\ ret = <<>>
    /\ AskIdle /\ WebIdle

\* formatted ... return "\n".join(lines), for chosen = candidates[arg.chosen]
ComposeChosen ==
    /\ pc = "call"
    /\ fn = "ask_model_for_hs"
    /\ result' = AnswerWithNames(arg.candidates[arg.chosen], arg.candidates)
    /\ pc' = "answered"
    /\ UNCHANGED <<PureVars, WebVars>>
    /\ UNCHANGED <<user_query, candidates, ask, llm_log, llm_outcome>>

\* hs_digits = extract_hs_from_result(result)
ExtractChosen ==
    /\ pc = "answered"
    /\ fn = "ask_model_for_hs"
    /\ hs_digits' = extract_hs_from_result(result)
    /\ pc' = "return"
    /\ UNCHANGED <<PureVars, AskVars, stages>>
    /\ UNCHANGED <<HS_DF, request, http, caselaw_data, rendered>>

NextRoundTrip == ComposeChosen \/ ExtractChosen

SpecRoundTrip == InitRoundTrip /\ [][NextRoundTrip]_vars

ChosenDigits == StripNonDigits(arg.candidates[arg.chosen].hs_code)

\* C20: for every stored hs_code of the chosen record, the digits that
\* extract_hs_from_result obtains from the "HS code: <formatted>" answer are
\* the digits-only form of the chosen record's code.
C20_RoundTripEveryStoredCode ==
    (fn = "ask_model_for_hs" /\ pc = "return") => hs_digits = ChosenDigits

\* the round trip does hold for the codes format_hs_code formats, those of six
\* or eight digits
RoundTripOfFormattedCodes ==
    (fn = "ask_model_for_hs" /\ pc = "return" /\ Len(ChosenDigits) \in {6, 8}) =>
        hs_digits = ChosenDigits

====
